---- MODULE Spec2Model ----
(***************************************************************************)
(* Financial computation engine of the investment-project evaluator        *)
(* (src/modules/financial_calculations.py, class ProyectoInversion).       *)
(*                                                                         *)
(* The Newton solver and the net present value use binary floating point   *)
(* numbers with a 29-bit mantissa: a value is a record [m, e] standing for *)
(* m * 2^e, with 2^28 <= |m| < 2^29 or m = 0, and every operator rounds    *)
(* toward zero, so results agree with the doubles of the code to about     *)
(* eight significant digits.  The payback period, the ROI, the flow         *)
(* normalizer, the pre-operative calculations, the projections and the     *)
(* sensitivity sweep use IEEE-754 doubles exact to the last bit.           *)
(*                                                                         *)
(* SpecTir covers calcular_tir, SpecRecuperacion covers                    *)
(* calcular_periodo_recuperacion, SpecNormalizador the flow normalizer,    *)
(* SpecSaldos the two pre-operative calculations, SpecProyeccion the       *)
(* revenue and expense projections, and SpecMotor the six public           *)
(* operations of the engine on small inputs.  SpecProyecto is a session    *)
(* of the application on one project: its handlers store the investment,   *)
(* the balances, the series and the indicators that later calls read.      *)
(***************************************************************************)
EXTENDS Integers, Sequences, FiniteSets, TLC

\* ------------------------------------------------------------------------
\* Floating point arithmetic
\* ------------------------------------------------------------------------
B4 == 2^4
B8 == 2^8
B13 == 2^13
B14 == 2^14
B15 == 2^15
B20 == 2^20
B24 == 2^24
B28 == 2^28
B29 == 2^29

Sgn(n) == IF n < 0 THEN -1 ELSE IF n > 0 THEN 1 ELSE 0
Abs(n) == IF n < 0 THEN -n ELSE n

FZero == [m |-> 0, e |-> 0]

RECURSIVE Norm(_, _)
Norm(m, e) ==
    IF m = 0 THEN FZero
    ELSE IF Abs(m) >= B29 THEN Norm(Sgn(m) * (Abs(m) \div 2), e + 1)
    ELSE IF Abs(m) < B14 THEN Norm(m * B15, e - 15)
    ELSE IF Abs(m) < B20 THEN Norm(m * B8, e - 8)
    ELSE IF Abs(m) < B24 THEN Norm(m * B4, e - 4)
    ELSE IF Abs(m) < B28 THEN Norm(m * 2, e - 1)
    ELSE [m |-> m, e |-> e]

FromInt(n) == Norm(n, 0)
FNeg(a) == [m |-> -a.m, e |-> a.e]
FAbs(a) == [m |-> Abs(a.m), e |-> a.e]

\* a + b for a.e >= b.e: the smaller operand is shifted right to a's exponent.
FAddOrdered(a, b) ==
    LET d == a.e - b.e
        small == IF d > 29 THEN 0 ELSE Sgn(b.m) * (Abs(b.m) \div (2^d))
    IN  Norm(a.m + small, a.e)

FAdd(a, b) ==
    IF a.m = 0 THEN b
    ELSE IF b.m = 0 THEN a
    ELSE IF a.e >= b.e THEN FAddOrdered(a, b)
    ELSE FAddOrdered(b, a)

FSub(a, b) == FAdd(a, FNeg(b))

\* a * b: the 58-bit product of the mantissas is formed from 15-bit limbs and
\* its top 30 bits are kept.
FMul(a, b) ==
    IF a.m = 0 \/ b.m = 0 THEN FZero
    ELSE LET x == Abs(a.m)
             y == Abs(b.m)
             a1 == x \div B15
             a0 == x % B15
             b1 == y \div B15
             b0 == y % B15
             cross == (a1 * b0 + a0 * b1) + ((a0 * b0) \div B15)
             t == a1 * b1 * 4 + (cross \div B13)
         IN  Norm(Sgn(a.m) * Sgn(b.m) * t, a.e + b.e + 28)

\* Long division in base 4: k more quotient digits of r / y appended to q.
RECURSIVE DivSteps(_, _, _, _)
DivSteps(q, r, y, k) ==
    IF k = 0 THEN q
    ELSE DivSteps(q * 4 + ((r * 4) \div y), (r * 4) % y, y, k - 1)

\* a / b for b # 0.
FDiv(a, b) ==
    IF a.m = 0 THEN FZero
    ELSE LET x == Abs(a.m)
             y == Abs(b.m)
             q == DivSteps(x \div y, x % y, y, 14)
         IN  Norm(Sgn(a.m) * Sgn(b.m) * q, a.e - b.e - 28)

\* x ** t for an integer t >= 0.
RECURSIVE FPow(_, _)
FPow(x, t) == IF t = 0 THEN FromInt(1) ELSE FMul(FPow(x, t - 1), x)

FLt(a, b) == FSub(a, b).m < 0
FLe(a, b) == FSub(a, b).m <= 0
FGt(a, b) == FLt(b, a)

FOne == FromInt(1)
\* n / d as a float, for integer literals such as 0.10 = 1/10.
Frac(n, d) == FDiv(FromInt(n), FromInt(d))

\* ------------------------------------------------------------------------
\* IEEE-754 double arithmetic, exact to the last bit
\*
\* The payback interpolation is decided by the rounding of single additions
\* and one division, so it is computed as the code's doubles compute it:
\* a double is [s, m, e] with value s * m * 2^e, s its sign (0 for zero) and
\* m its 53-bit mantissa, held as a natural number in limbs of 15 bits,
\* least significant first.  Results are rounded to nearest, ties to even.
\* Amounts are far from the overflow and subnormal ranges.
\* ------------------------------------------------------------------------
BUno == <<1>>

RECURSIVE BTrim(_)
BTrim(x) == IF x # <<>> /\ x[Len(x)] = 0 THEN BTrim(SubSeq(x, 1, Len(x) - 1)) ELSE x

Limb(x, i) == IF i <= Len(x) THEN x[i] ELSE 0

RECURSIVE BAddDesde(_, _, _, _)
BAddDesde(x, y, i, carry) ==
    IF i > Len(x) /\ i > Len(y)
    THEN IF carry = 0 THEN <<>> ELSE <<carry>>
    ELSE LET t == Limb(x, i) + Limb(y, i) + carry
         IN  <<t % B15>> \o BAddDesde(x, y, i + 1, t \div B15)

BAdd(x, y) == BAddDesde(x, y, 1, 0)

\* x - y for x >= y
RECURSIVE BSubDesde(_, _, _, _)
BSubDesde(x, y, i, borrow) ==
    IF i > Len(x) THEN <<>>
    ELSE LET t == Limb(x, i) - Limb(y, i) - borrow
         IN  <<t % B15>> \o BSubDesde(x, y, i + 1, IF t < 0 THEN 1 ELSE 0)

BSub(x, y) == BTrim(BSubDesde(x, y, 1, 0))

RECURSIVE BCmpDesde(_, _, _)
BCmpDesde(x, y, i) ==
    IF i = 0 THEN 0
    ELSE IF x[i] # y[i] THEN (IF x[i] < y[i] THEN -1 ELSE 1)
    ELSE BCmpDesde(x, y, i - 1)

\* -1, 0 or 1 as x is below, equal to or above y
BCmp(x, y) ==
    IF Len(x) # Len(y) THEN (IF Len(x) < Len(y) THEN -1 ELSE 1)
    ELSE BCmpDesde(x, y, Len(x))

RECURSIVE BMulSmallDesde(_, _, _, _)
BMulSmallDesde(x, f, i, carry) ==
    IF i > Len(x)
    THEN IF carry = 0 THEN <<>> ELSE <<carry>>
    ELSE LET t == x[i] * f + carry
         IN  <<t % B15>> \o BMulSmallDesde(x, f, i + 1, t \div B15)

RECURSIVE Ceros(_)
Ceros(k) == IF k = 0 THEN <<>> ELSE <<0>> \o Ceros(k - 1)

\* x * 2^k
BShl(x, k) ==
    IF x = <<>> THEN <<>>
    ELSE Ceros(k \div 15) \o BMulSmallDesde(x, 2 ^ (k % 15), 1, 0)

RECURSIVE BDivSmallDesde(_, _, _, _)
BDivSmallDesde(x, f, i, rem) ==
    IF i = 0 THEN <<>>
    ELSE LET t == rem * B15 + x[i]
         IN  BDivSmallDesde(x, f, i - 1, t % f) \o <<t \div f>>

\* x \div 2^k
BShr(x, k) ==
    IF k \div 15 >= Len(x) THEN <<>>
    ELSE LET y == SubSeq(x, (k \div 15) + 1, Len(x))
         IN  BTrim(BDivSmallDesde(y, 2 ^ (k % 15), Len(y), 0))

RECURSIVE BitLenSmall(_)
BitLenSmall(n) == IF n = 0 THEN 0 ELSE 1 + BitLenSmall(n \div 2)

BBitLen(x) == IF x = <<>> THEN 0 ELSE 15 * (Len(x) - 1) + BitLenSmall(x[Len(x)])

BFromNat(n) == BTrim(<<n % B15, (n \div B15) % B15, n \div (B15 * B15)>>)

BOdd(x) == x # <<>> /\ x[1] % 2 = 1

DZero == [s |-> 0, m |-> <<>>, e |-> 0]

\* Round to nearest, ties to even: q = n \div 2^k is rounded up when the
\* k bits dropped (with `sticky`: and what was dropped before them) are
\* above the half of the last bit kept, or at the half with q odd.
RedondeaArriba(n, k, q, sticky) ==
    LET cmp == BCmp(BSub(n, BShl(q, k)), BShl(BUno, k - 1))
    IN  cmp > 0 \/ (cmp = 0 /\ (sticky \/ BOdd(q)))

Redondeado(n, k, q, sticky) ==
    IF RedondeaArriba(n, k, q, sticky) THEN BAdd(q, BUno) ELSE q

\* s * q * 2^e for q of 53 bits, or of 54 after a rounding that carried
Normalizado(s, q, e) ==
    IF BBitLen(q) > 53
    THEN [s |-> s, m |-> BShr(q, 1), e |-> e + 1]
    ELSE [s |-> s, m |-> q, e |-> e]

\* s * n * 2^e rounded for a non-zero n of len bits
Round53DeBits(s, n, e, sticky, len) ==
    IF len <= 53 THEN [s |-> s, m |-> BShl(n, 53 - len), e |-> e - (53 - len)]
    ELSE Normalizado(s, Redondeado(n, len - 53, BShr(n, len - 53), sticky),
                     e + (len - 53))

\* s * n * 2^e, with `sticky` saying that a non-zero amount below the last
\* bit of n was dropped, rounded to a double.
Round53(s, n, e, sticky) ==
    IF n = <<>> \/ s = 0 THEN DZero
    ELSE Round53DeBits(s, n, e, sticky, BBitLen(n))

DFromInt(n) == Round53(Sgn(n), BFromNat(Abs(n)), 0, FALSE)

DNeg(a) == [a EXCEPT !.s = -a.s]

\* a + b of two non-zero doubles, the exact sum then rounded
SumaAlineada(sa, x, sb, y, e) ==
    LET c == BCmp(x, y)
    IN  Round53(IF sa = sb \/ c > 0 THEN sa ELSE sb,
                IF sa = sb THEN BAdd(x, y)
                ELSE IF c > 0 THEN BSub(x, y)
                ELSE IF c < 0 THEN BSub(y, x)
                ELSE <<>>,
                e, FALSE)

DAddNonZero(a, b) ==
    LET e == IF a.e < b.e THEN a.e ELSE b.e
    IN  SumaAlineada(a.s, BShl(a.m, a.e - e), b.s, BShl(b.m, b.e - e), e)

DAdd(a, b) == IF a.s = 0 THEN b ELSE IF b.s = 0 THEN a ELSE DAddNonZero(a, b)

DSub(a, b) == DAdd(a, DNeg(b))

\* Comparison is exact: the sign of the difference survives its rounding.
DLt(a, b) == DSub(a, b).s < 0
DLe(a, b) == DSub(a, b).s <= 0
DGt(a, b) == DLt(b, a)
DGe(a, b) == DLe(b, a)

\* Long division of mantissas, bit by bit, until the quotient q has `bits`
\* bits; r is the remainder so far.
RECURSIVE DivBits(_, _, _, _)
DivBits(q, r, y, bits) ==
    IF BBitLen(q) >= bits THEN [q |-> q, r |-> r]
    ELSE LET r2 == BAdd(r, r)
             q2 == BAdd(q, q)
         IN  IF BCmp(r2, y) >= 0
             THEN DivBits(BAdd(q2, BUno), BSub(r2, y), y, bits)
             ELSE DivBits(q2, r2, y, bits)

\* a / b for b non-zero: the quotient of the mantissas to 55 bits, the
\* remainder deciding the rounding of a tie.
Cociente(s, d, e) == Round53(s, d.q, e, d.r # <<>>)

DDiv(a, b) ==
    IF a.s = 0 THEN DZero
    ELSE LET ge == BCmp(a.m, b.m) >= 0
         IN  Cociente(a.s * b.s,
                      DivBits(BUno, BSub(IF ge THEN a.m ELSE BAdd(a.m, a.m), b.m),
                              b.m, 55),
                      a.e - b.e - (IF ge THEN 54 ELSE 55))

\* The double nearest to c / 100: an amount written with two decimals.
Centimos(c) == DDiv(DFromInt(c), DFromInt(100))

RECURSIVE BMul(_, _)
BMul(x, y) ==
    IF x = <<>> \/ y = <<>> THEN <<>>
    ELSE LET resto == BMul(Tail(x), y)
         IN  BAdd(BTrim(BMulSmallDesde(y, x[1], 1, 0)),
                  IF resto = <<>> THEN <<>> ELSE <<0>> \o resto)

DMul(a, b) == Round53(a.s * b.s, BMul(a.m, b.m), a.e + b.e, FALSE)

\* The integer nearest to n / 2^k, ties to the even one.
BRedondeo(n, k) == Redondeado(n, k, BShr(n, k), FALSE)

\* round(x, 2): the hundredth nearest to the double's exact value, ties to
\* the even hundredth, and of that decimal the nearest double.
Centesimas(cien, e) == IF e >= 0 THEN BShl(cien, e) ELSE BRedondeo(cien, -e)

Round2(x) ==
    IF x.s = 0 THEN DZero
    ELSE DDiv(Round53(x.s, Centesimas(BMul(x.m, BFromNat(100)), x.e), 0, FALSE),
              DFromInt(100))

\* ------------------------------------------------------------------------
\* Python values
\* ------------------------------------------------------------------------
\* An optional float: None, or a float v.
None == [is_none |-> TRUE, v |-> FZero]
Some(x) == [is_none |-> FALSE, v |-> x]

RECURSIVE SumSeq(_)
SumSeq(s) == IF s = <<>> THEN 0 ELSE s[1] + SumSeq(Tail(s))

\* ------------------------------------------------------------------------
\* IRR: flow normalizer, Newton solver, calcular_tir
\* ------------------------------------------------------------------------
\* The sum of a series of floats from entry i on, added in order to total
RECURSIVE DSumDesde(_, _, _)
DSumDesde(montos, i, total) ==
    IF i > Len(montos) THEN total
    ELSE DSumDesde(montos, i + 1, DAdd(total, montos[i]))

\* The natural number of a sequence of limbs
RECURSIVE BANat(_)
BANat(x) == IF x = <<>> THEN 0 ELSE x[1] + B15 * BANat(Tail(x))

\* The integer a double with a whole value stands for
Entero(d) ==
    IF d.s = 0 THEN 0
    ELSE d.s * BANat(IF d.e >= 0 THEN BShl(d.m, d.e) ELSE BShr(d.m, -d.e))

Enteros(serie) == [i \in 1..Len(serie) |-> Entero(serie[i])]

\* A series of whole amounts, as the doubles the call is made with
DeEnteros(serie) == [i \in 1..Len(serie) |-> DFromInt(serie[i])]

DAbs(a) == [a EXCEPT !.s = Abs(a.s)]

\* "acumulado" branch: first differences, the first entry kept.
DiferenciasInvertidas(flujos_efectivo) ==
    IF Len(flujos_efectivo) <= 1 THEN flujos_efectivo
    ELSE [i \in 1..Len(flujos_efectivo) |->
            IF i = 1 THEN flujos_efectivo[1]
            ELSE DSub(flujos_efectivo[i - 1], flujos_efectivo[i])]

Diferencias(flujos_efectivo) ==
    IF Len(flujos_efectivo) <= 1 THEN flujos_efectivo
    ELSE [i \in 1..Len(flujos_efectivo) |->
            IF i = 1 THEN flujos_efectivo[1]
            ELSE DSub(flujos_efectivo[i], flujos_efectivo[i - 1])]

\* np.mean of a series that is not empty: the sum in order over the length
Mean(serie) == DDiv(DSumDesde(serie, 1, DZero), DFromInt(Len(serie)))

\* The test of the "auto" branch: np.mean(diffs) < 0.2 * np.mean(values)
\* if np.mean(values) > 0 else False, for a series of more than 3 entries.
ParecenAcumulados(flujos_efectivo) ==
    LET n == Len(flujos_efectivo)
        diffs == [i \in 1..(n - 1) |->
                     DAbs(DSub(flujos_efectivo[i + 1], flujos_efectivo[i]))]
        values == [i \in 1..(n - 1) |-> DAbs(flujos_efectivo[i + 1])]
    IN  IF DGt(Mean(values), DZero)
        THEN DLt(Mean(diffs), DMul(Centimos(20), Mean(values)))
        ELSE FALSE

\* The series are series of floats.
convertir_flujos_si_necesario(flujos_efectivo, input_tipo) ==
    IF input_tipo = "periodo" THEN flujos_efectivo
    ELSE IF input_tipo = "acumulado" THEN Diferencias(flujos_efectivo)
    ELSE IF Len(flujos_efectivo) > 3 /\ ParecenAcumulados(flujos_efectivo)
         THEN Diferencias(flujos_efectivo)
         ELSE flujos_efectivo

\* Excel's validation: at least one positive and one negative value.
HaySignos(valores) ==
    /\ \E i \in 1..Len(valores) : valores[i] > 0
    /\ \E i \in 1..Len(valores) : valores[i] < 0

\* EPS of the solver and the offset of its clamp r <= -1 + 1e-12.
EPS == FDiv(FOne, FMul(FromInt(10^6), FromInt(10^6)))

\* <<base ** 1, ..., base ** k>>.
RECURSIVE Potencias(_, _)
Potencias(base, k) ==
    IF k = 0 THEN <<>>
    ELSE LET menores == Potencias(base, k - 1)
         IN  Append(menores, IF k = 1 THEN FMul(FOne, base) ELSE FMul(menores[k - 1], base))

\* The accumulators of one Newton iteration after the terms t = 0..t of
\* valores (valores[t + 1] is the flow of period t); pot[t] = (1 + r) ** t.
RECURSIVE NpvHasta(_, _, _)
NpvHasta(valores, pot, t) ==
    IF t = 0 THEN FAdd(FZero, FromInt(valores[1]))
    ELSE FAdd(NpvHasta(valores, pot, t - 1),
              FDiv(FromInt(valores[t + 1]), pot[t]))

RECURSIVE DnpvHasta(_, _, _)
DnpvHasta(valores, pot, t) ==
    IF t = 0 THEN FZero
    ELSE FAdd(DnpvHasta(valores, pot, t - 1),
              FDiv(FromInt((-t) * valores[t + 1]), pot[t + 1]))

\* The exceptions the try block catches: ** raises OverflowError above the
\* largest double (2^1024), and a power that underflows to 0.0 makes the
\* division raise ZeroDivisionError.
PotenciaDesborda(p) == p.e + 28 >= 1024
PotenciaNula(p) == p.e + 29 <= -1075

LanzaExcepcion(pot) ==
    \E t \in 1..Len(pot) : PotenciaDesborda(pot[t]) \/ PotenciaNula(pot[t])

\* The loop running one iteration more than iter_max.
BucleAgotadoTarde(iteracion, iter_max) == iteracion > iter_max

\* for iteracion in range(int(iter_max)): the loop is over.
BucleAgotado(iteracion, iter_max) == iteracion >= iter_max

\* The solver giving back its current rate when the derivative vanishes.
RetornoUltimaTasa(base) == Some(FSub(base, FOne))

\* "if abs(dnpv) < EPS: return None", reached at 1 + r = base.
RetornoDerivadaNula(base) == None

\* The loop of _tir_excel_newton from iteration `iteracion` on.  The iterate
\* is kept as base = 1 + r, so that the clamp value -1 + 1e-12 is
\* representable; r_nuevo - r = base_nuevo - base.  The result records the
\* returned value, the number of iterations run and why the loop ended.
RECURSIVE NewtonDesde(_, _, _, _, _)
NewtonDesde(valores, base0, iteracion, tolerancia, iter_max) ==
    IF BucleAgotado(iteracion, iter_max)
    THEN [ret |-> None, iters |-> iteracion, causa |-> "iter_max"]
    ELSE LET base == IF FLe(base0, EPS) THEN EPS ELSE base0
             n == Len(valores) - 1
             pot == Potencias(base, n + 1)
         IN  IF LanzaExcepcion(pot)
             THEN [ret |-> None, iters |-> iteracion + 1, causa |-> "excepcion"]
             ELSE LET npv == NpvHasta(valores, pot, n)
                      dnpv == DnpvHasta(valores, pot, n)
                  IN  IF FLt(FAbs(dnpv), EPS)
                      THEN [ret |-> RetornoDerivadaNula(base), iters |-> iteracion + 1,
                            causa |-> "derivada"]
                      ELSE LET base_nuevo == FSub(base, FDiv(npv, dnpv))
                           IN  IF FLe(FAbs(FSub(base_nuevo, base)), tolerancia)
                               THEN [ret |-> Some(FSub(base_nuevo, FOne)),
                                     iters |-> iteracion + 1, causa |-> "converge"]
                               ELSE NewtonDesde(valores, base_nuevo, iteracion + 1,
                                                tolerancia, iter_max)

tir_excel_newton(valores, guess, tolerancia, iter_max) ==
    IF ~HaySignos(valores)
    THEN [ret |-> None, iters |-> 0, causa |-> "signos"]
    ELSE NewtonDesde(valores, FAdd(FOne, guess), 0, tolerancia, iter_max)

validar_flujos_para_tir(flujos_efectivo, inversion_inicial) ==
    IF flujos_efectivo = <<>> THEN FALSE
    ELSE IF inversion_inicial <= 0 THEN FALSE
    ELSE HaySignos(<<-Abs(inversion_inicial)>> \o flujos_efectivo)

\* The defaults of the earlier calcular_tir, which annualized unless told
\* otherwise.
DefaultsAnual ==
    [max_iteraciones |-> 1000, guess |-> Frac(1, 10), devolver |-> "anual",
     periodos_por_anio |-> 12, excel_compatible |-> TRUE, input_tipo |-> "auto",
     validacion_estricta |-> TRUE]

\* The defaults of calcular_tir's optional arguments.
Defaults ==
    [max_iteraciones |-> 1000, guess |-> Frac(1, 10), devolver |-> "periodo",
     periodos_por_anio |-> 12, excel_compatible |-> TRUE, input_tipo |-> "auto",
     validacion_estricta |-> TRUE]

\* The value of an optional argument: kw holds the arguments the caller names.
Arg(kw, name) == IF name \in DOMAIN kw THEN kw[name] ELSE Defaults[name]

Min(a, b) == IF a <= b THEN a ELSE b

\* What calcular_tir returns (ret; excepcion names an exception that escapes
\* instead), with the series built for the solver, the solver's own result
\* (r_periodo), its iteration count and the reason the computation ended.
TirSinSolver(valores) ==
    [ret |-> None, excepcion |-> "ninguna", valores |-> valores, r_periodo |-> None,
     iters |-> 0, causa |-> "validacion"]

\* PASO 7 and PASO 8 for a rate r_periodo the solver returned.
\* The periodic limit taken for the annual one.
TasaPeriodoExcesivaCincuenta(r_periodo) == FGt(FAbs(r_periodo), FromInt(50))

\* abs(r_periodo) > 10
TasaPeriodoExcesiva(r_periodo) == FGt(FAbs(r_periodo), FromInt(10))

\* A PASO 7 that lets rates above 10 through
TirSinTope(r_periodo, devolver, periodos_por_anio, validacion_estricta) ==
    IF validacion_estricta /\ FLt(r_periodo, FNeg(Frac(99, 100))) THEN None
    ELSE IF devolver = "periodo" THEN Some(r_periodo)
    ELSE LET potencia == FPow(FAdd(FOne, r_periodo), periodos_por_anio)
             tir_anual == FSub(potencia, FOne)
         IN  IF PotenciaDesborda(potencia) THEN None
             ELSE IF validacion_estricta /\ FGt(FAbs(tir_anual), FromInt(50)) THEN None
             ELSE Some(tir_anual)

TirFinal(r_periodo, devolver, periodos_por_anio, validacion_estricta) ==
    IF validacion_estricta /\ TasaPeriodoExcesiva(r_periodo) THEN None
    ELSE IF validacion_estricta /\ FLt(r_periodo, FNeg(Frac(99, 100))) THEN None
    ELSE IF devolver = "periodo" THEN Some(r_periodo)
    ELSE LET potencia == FPow(FAdd(FOne, r_periodo), periodos_por_anio)
             tir_anual == FSub(potencia, FOne)
         IN  IF PotenciaDesborda(potencia) THEN None
             ELSE IF validacion_estricta /\ FGt(FAbs(tir_anual), FromInt(50)) THEN None
             ELSE Some(tir_anual)

\* PASO 6 to PASO 8: what calcular_tir makes of the solver's result.
TirDelSolver(solver, valores, kw) ==
    [ret |-> IF solver.ret.is_none THEN None
             ELSE TirFinal(solver.ret.v, Arg(kw, "devolver"),
                           Arg(kw, "periodos_por_anio"), Arg(kw, "validacion_estricta")),
     excepcion |-> "ninguna", valores |-> valores, r_periodo |-> solver.ret,
     iters |-> solver.iters, causa |-> solver.causa]

\* A PASO 4 that takes the caller's guess and iterations in every mode
TirConParametrosDelLlamador(flujos_efectivo, inversion_inicial, kw, flujos_procesados) ==
    LET validacion_estricta == Arg(kw, "validacion_estricta")
        valores == <<-Abs(inversion_inicial)>> \o flujos_procesados
    IN  IF validacion_estricta /\ (flujos_efectivo = <<>> \/ inversion_inicial <= 0)
        THEN TirSinSolver(<<>>)
        ELSE IF ~validar_flujos_para_tir(flujos_procesados, inversion_inicial)
                /\ validacion_estricta
        THEN TirSinSolver(valores)
        ELSE TirDelSolver(tir_excel_newton(valores, Arg(kw, "guess"), Frac(1, 10^7),
                                           Min(Arg(kw, "max_iteraciones"), 100)),
                          valores, kw)

\* PASO 1 and PASO 3 to PASO 5, for the flows the normalizer returned.
TirDeProcesados(flujos_efectivo, inversion_inicial, kw, flujos_procesados) ==
    LET validacion_estricta == Arg(kw, "validacion_estricta")
        excel_compatible == Arg(kw, "excel_compatible")
        valores == <<-Abs(inversion_inicial)>> \o flujos_procesados
        iter_max == IF excel_compatible THEN 20
                    ELSE Min(Arg(kw, "max_iteraciones"), 100)
        tolerancia == IF excel_compatible THEN Frac(1, 10^7)
                      ELSE FDiv(FOne, FMul(FromInt(10^5), FromInt(10^5)))
        guess_final == IF excel_compatible THEN Frac(1, 10) ELSE Arg(kw, "guess")
    IN  IF validacion_estricta /\ (flujos_efectivo = <<>> \/ inversion_inicial <= 0)
        THEN TirSinSolver(<<>>)
        ELSE IF ~validar_flujos_para_tir(flujos_procesados, inversion_inicial)
                /\ validacion_estricta
        THEN TirSinSolver(valores)
        ELSE TirDelSolver(tir_excel_newton(valores, guess_final, tolerancia, iter_max),
                          valores, kw)

calcular_tir(flujos_efectivo, inversion_inicial, kw) ==
    TirDeProcesados(flujos_efectivo, inversion_inicial, kw,
                    Enteros(convertir_flujos_si_necesario(DeEnteros(flujos_efectivo),
                                                          Arg(kw, "input_tipo"))))

\* ------------------------------------------------------------------------
\* Pre-operative balances, cash-flow assembly, NPV, ROI and payback
\* ------------------------------------------------------------------------
\* An exception that leaves the operation instead of a value.
Lanza(excepcion) == [ret |-> None, excepcion |-> excepcion]

Devuelve(valor) == [ret |-> valor, excepcion |-> "ninguna"]

\* sum(d.values()) over the keys not yet added
RECURSIVE SumValues(_, _)
SumValues(d, keys) ==
    IF keys = {} THEN 0
    ELSE LET k == CHOOSE x \in keys : TRUE
         IN  d[k] + SumValues(d, keys \ {k})

\* The loop of calcular_saldos_preoperativos_con_costos from month `mes` on.
RECURSIVE SaldosDesde(_, _, _, _, _, _, _)
SaldosDesde(inversion, meses, distribucion, costo_mes, mes, acumulado, saldos) ==
    IF mes > meses
    THEN Devuelve([saldos |-> saldos, saldo_final |-> Round2(acumulado)])
    ELSE LET inversion_mes ==
                 DFromInt(IF mes \in DOMAIN distribucion THEN distribucion[mes] ELSE 0)
             disponible_neto == DSub(inversion_mes, costo_mes)
             saldo_final_acumulado == DAdd(acumulado, disponible_neto)
             porcentaje_amortizado ==
                 DMul(DDiv(saldo_final_acumulado, DFromInt(inversion)), DFromInt(100))
         IN  IF inversion = 0 THEN Lanza("ZeroDivisionError")
             ELSE SaldosDesde(inversion, meses, distribucion, costo_mes, mes + 1,
                     saldo_final_acumulado,
                     Append(saldos,
                         [mes |-> mes,
                          inversion_inicial_mes |-> Round2(inversion_mes),
                          costos_operativos_mes |-> Round2(costo_mes),
                          disponible_neto_mes |-> Round2(disponible_neto),
                          saldo_final_acumulado |-> Round2(saldo_final_acumulado),
                          porcentaje_amortizado |-> Round2(porcentaje_amortizado)]))

\* The costs of the whole phase charged to every month
SaldosConCostoTotalCadaMes(inversion, meses, distribucion, costos) ==
    IF costos # <<>> /\ meses = 0 THEN Lanza("ZeroDivisionError")
    ELSE LET costo_mes == IF costos # <<>>
                          THEN DFromInt(SumValues(costos, DOMAIN costos))
                          ELSE DZero
         IN  SaldosDesde(inversion, meses, distribucion, costo_mes, 1, DZero, <<>>)

\* distribucion maps months to amounts and costos concepts to amounts; the
\* empty mapping is <<>>.
calcular_saldos_preoperativos_con_costos(inversion, meses, distribucion, costos) ==
    IF costos # <<>> /\ meses = 0 THEN Lanza("ZeroDivisionError")
    ELSE LET costo_mes == IF costos # <<>>
                          THEN DDiv(DFromInt(SumValues(costos, DOMAIN costos)),
                                    DFromInt(meses))
                          ELSE DZero
         IN  SaldosDesde(inversion, meses, distribucion, costo_mes, 1, DZero, <<>>)

\* The loop of calcular_saldos_preoperativos from month `mes` on.
RECURSIVE SaldosSinCostosDesde(_, _, _, _, _, _)
SaldosSinCostosDesde(inversion, meses, distribucion, mes, acumulado, saldos) ==
    IF mes > meses THEN saldos
    ELSE LET erogacion == IF mes \in DOMAIN distribucion THEN distribucion[mes]
                          ELSE DZero
             saldo_acumulado == DSub(acumulado, erogacion)
         IN  SaldosSinCostosDesde(inversion, meses, distribucion, mes + 1,
                 saldo_acumulado,
                 Append(saldos,
                     [mes |-> mes,
                      erogacion_mes |-> erogacion,
                      erogacion_acumulada |-> DSub(inversion, saldo_acumulado),
                      saldo_disponible |-> saldo_acumulado,
                      porcentaje_ejecutado |->
                          IF inversion.s > 0
                          THEN DMul(DDiv(DSub(inversion, saldo_acumulado), inversion),
                                    DFromInt(100))
                          ELSE DZero]))

\* inversion is a float and distribucion maps months to floats.
calcular_saldos_preoperativos(inversion, meses, distribucion) ==
    SaldosSinCostosDesde(inversion, meses, distribucion, 1, inversion, <<>>)

\* saldo_preoperativo_final is the attribute of that name the project
\* carries, 0 when it has none.
FlujoConSaldoEnCadaMes(ingresos, egresos, saldo_preoperativo_final) ==
    IF ingresos = <<>> \/ egresos = <<>> \/ Len(ingresos) # Len(egresos) THEN <<>>
    ELSE [i \in 1..Len(ingresos) |->
             DAdd(DSub(ingresos[i], egresos[i]), saldo_preoperativo_final)]

calcular_flujo_efectivo_completo(ingresos, egresos, saldo_preoperativo_final) ==
    IF ingresos = <<>> \/ egresos = <<>> \/ Len(ingresos) # Len(egresos) THEN <<>>
    ELSE [i \in 1..Len(ingresos) |->
             IF i = 1
             THEN DAdd(DSub(ingresos[i], egresos[i]), saldo_preoperativo_final)
             ELSE DSub(ingresos[i], egresos[i])]

\* The largest mantissa m in lo..hi with (m * 2^-28) ** 12 <= x, lo being one.
RECURSIVE RaizEntre(_, _, _)
RaizEntre(x, lo, hi) ==
    IF lo = hi THEN lo
    ELSE LET mid == (lo + hi + 1) \div 2
         IN  IF FLe(FPow([m |-> mid, e |-> -28], 12), x)
             THEN RaizEntre(x, mid, hi)
             ELSE RaizEntre(x, lo, mid - 1)

\* x ** (1 / 12) for x = 0 and for 1 <= x < 4096
Raiz12(x) == IF x.m = 0 THEN FZero ELSE [m |-> RaizEntre(x, B28, B29 - 1), e |-> -28]

\* The loop of calcular_vpn from period t on, base being 1 + tasa_mensual.
RECURSIVE VpnDesde(_, _, _, _)
VpnDesde(flujos_efectivo, base, t, vpn) ==
    IF t > Len(flujos_efectivo) THEN vpn
    ELSE LET potencia == FPow(base, t)
         IN  IF potencia.m = 0 \/ PotenciaNula(potencia) \/ PotenciaDesborda(potencia) THEN vpn
             ELSE VpnDesde(flujos_efectivo, base, t + 1,
                           FAdd(vpn, FDiv(FromInt(flujos_efectivo[t]), potencia)))

\* A calcular_vpn that discounts with the monthly rate of the opposite sign
VpnConTasaOpuesta(flujos_efectivo, inversion_inicial, tasa_descuento_anual) ==
    IF flujos_efectivo = <<>> \/ inversion_inicial <= 0 THEN FZero
    ELSE LET tasa_mensual == FSub(Raiz12(FAdd(FOne, tasa_descuento_anual)), FOne)
         IN  VpnDesde(flujos_efectivo, FSub(FOne, tasa_mensual), 1,
                      FromInt(-Abs(inversion_inicial)))

\* tasa_descuento_anual is a float: -1, zero or positive.  At -1 the base
\* of the powers is 0, the first division raises ZeroDivisionError and the
\* loop breaks with the investment alone.
calcular_vpn(flujos_efectivo, inversion_inicial, tasa_descuento_anual) ==
    IF flujos_efectivo = <<>> \/ inversion_inicial <= 0 THEN FZero
    ELSE LET tasa_mensual == FSub(Raiz12(FAdd(FOne, tasa_descuento_anual)), FOne)
         IN  VpnDesde(flujos_efectivo, FAdd(FOne, tasa_mensual), 1,
                      FromInt(-Abs(inversion_inicial)))

calcular_roi(flujos_efectivo, inversion_inicial) ==
    IF flujos_efectivo = <<>> \/ inversion_inicial <= 0 THEN DZero
    ELSE LET beneficio_total == SumSeq(flujos_efectivo)
         IN  DMul(DDiv(DFromInt(beneficio_total - inversion_inicial),
                       DFromInt(inversion_inicial)),
                  DFromInt(100))

\* max(0, x)
DMax0(x) == IF DGt(x, DZero) THEN x ELSE DZero

\* Interpolation within period i, whose flow took the running total
\* flujo_acumulado up to the investment.
PeriodoExacto(i, flujo, flujo_acumulado, inversion_inicial) ==
    LET mes_anterior == i - 1
        flujo_anterior == DSub(flujo_acumulado, flujo)
        diferencia == DSub(inversion_inicial, flujo_anterior)
        fraccion_mes == IF DGt(flujo, DZero) THEN DDiv(diferencia, flujo) ELSE DZero
    IN  DAdd(DFromInt(mes_anterior), fraccion_mes)

\* The shortfall with its operands exchanged.
FaltanteInvertido(inversion_inicial, flujo_acumulado) ==
    DSub(flujo_acumulado, inversion_inicial)

\* inversion_inicial - flujo_acumulado
Faltante(inversion_inicial, flujo_acumulado) ==
    DSub(inversion_inicial, flujo_acumulado)

\* The loop of calcular_periodo_recuperacion from period i on; anios is the
\* result's key "años".
RECURSIVE RecuperacionDesde(_, _, _, _)
RecuperacionDesde(flujos_efectivo, inversion_inicial, i, acumulado) ==
    IF i > Len(flujos_efectivo)
    THEN [meses |-> DFromInt(Len(flujos_efectivo)),
          anios |-> DDiv(DFromInt(Len(flujos_efectivo)), DFromInt(12)),
          recuperado |-> FALSE,
          flujo_acumulado_final |-> acumulado,
          faltante |-> Faltante(inversion_inicial, acumulado)]
    ELSE LET flujo == flujos_efectivo[i]
             flujo_acumulado == DAdd(acumulado, flujo)
             periodo_exacto ==
                 PeriodoExacto(i, flujo, flujo_acumulado, inversion_inicial)
         IN  IF DGe(flujo_acumulado, inversion_inicial)
             THEN [meses |-> DMax0(periodo_exacto),
                   anios |-> DMax0(DDiv(periodo_exacto, DFromInt(12))),
                   recuperado |-> TRUE,
                   flujo_acumulado_final |-> flujo_acumulado]
             ELSE RecuperacionDesde(flujos_efectivo, inversion_inicial, i + 1,
                                    flujo_acumulado)

\* flujos_efectivo and inversion_inicial are doubles.
calcular_periodo_recuperacion(flujos_efectivo, inversion_inicial) ==
    IF flujos_efectivo = <<>> \/ DLe(inversion_inicial, DZero)
    THEN [recuperado |-> FALSE, meses |-> DZero, faltante |-> inversion_inicial]
    ELSE RecuperacionDesde(flujos_efectivo, inversion_inicial, 1, DZero)

\* ------------------------------------------------------------------------
\* Revenue and expense projections
\* ------------------------------------------------------------------------
\* The natural number x ** k
RECURSIVE BPow(_, _)
BPow(x, k) == IF k = 0 THEN BUno ELSE BMul(x, BPow(x, k - 1))

\* x ** mes for a double x and an integer mes >= 0: the exact power, rounded
\* once; x ** 0 is 1.0 for every x.
DPow(x, mes) ==
    IF mes = 0 THEN DFromInt(1)
    ELSE IF x.s = 0 THEN DZero
    ELSE Round53(IF mes % 2 = 0 THEN 1 ELSE x.s, BPow(x.m, mes), x.e * mes, FALSE)

\* factor_variacion = (1 + (tasa_variacion / 100)) ** mes
FactorVariacionInverso(tasa_variacion, mes) ==
    DPow(DSub(DFromInt(1), DDiv(tasa_variacion, DFromInt(100))), mes)

FactorVariacion(tasa_variacion, mes) ==
    DPow(DAdd(DFromInt(1), DDiv(tasa_variacion, DFromInt(100))), mes)

\* config_ingresos.get('tasa_variacion', 0)
TasaDe(config_ingresos) ==
    IF "tasa_variacion" \in DOMAIN config_ingresos
    THEN config_ingresos.tasa_variacion
    ELSE DZero

\* ingreso_operativo_base, from the monthly count of fines on
IngresoOperativoBase(config_ingresos) ==
    LET multas_mensuales == config_ingresos.multas_diarias * 30
        ingresos_totales_teoricos ==
            DMul(DFromInt(multas_mensuales), config_ingresos.valor_multa_descuento)
        pago_voluntario_teorico ==
            DMul(ingresos_totales_teoricos,
                 DDiv(config_ingresos.pct_pago_voluntario, DFromInt(100)))
    IN  DMul(pago_voluntario_teorico,
             DDiv(config_ingresos.pct_ingreso_operativo, DFromInt(100)))

\* ingreso_mes of the month mes of range(meses_operativos), before rounding
IngresoMesEscalonado(ingreso_operativo_base, tasa_variacion, mes) ==
    DMul(ingreso_operativo_base, DFromInt(mes + 1))

IngresoMes(ingreso_operativo_base, tasa_variacion, mes) ==
    IF tasa_variacion.s = 0 THEN ingreso_operativo_base
    ELSE DMul(ingreso_operativo_base, FactorVariacion(tasa_variacion, mes))

\* Entry i of the series is the month mes = i - 1 of range(meses_operativos).
calcular_ingresos_operativos(config_ingresos, meses_operativos) ==
    LET tasa_variacion == TasaDe(config_ingresos)
        ingreso_operativo_base == IngresoOperativoBase(config_ingresos)
    IN  [ingresos_mensuales |->
             [i \in 1..meses_operativos |->
                 Round2(IngresoMes(ingreso_operativo_base, tasa_variacion, i - 1))],
         ingreso_operativo_base |-> ingreso_operativo_base]

\* monto_mes of a concept in a month of a projection with variation, rounded
MontoMesSinEscalar(monto_base, tasa_variacion, mes) ==
    Round2(monto_base)

MontoMes(monto_base, tasa_variacion, mes) ==
    Round2(DMul(monto_base, FactorVariacion(tasa_variacion, mes)))

\* egresos_base is the sequence of the amounts of its concepts, in the order
\* of the dictionary; a detail is the sequence of the amounts of the month.
calcular_egresos_operativos(egresos_base, meses_operativos, tasa_variacion) ==
    LET total_egresos_base == DSumDesde(egresos_base, 1, DZero)
        total_mes(mes) ==
            IF tasa_variacion.s = 0 THEN total_egresos_base
            ELSE DMul(total_egresos_base, FactorVariacion(tasa_variacion, mes))
        egresos_mes_detalle(mes) ==
            IF tasa_variacion.s = 0 THEN egresos_base
            ELSE [c \in 1..Len(egresos_base) |->
                     MontoMes(egresos_base[c], tasa_variacion, mes)]
    IN  [egresos_mensuales |->
             [i \in 1..meses_operativos |-> Round2(total_mes(i - 1))],
         total_egresos_base |-> total_egresos_base,
         detalle_conceptos |->
             [i \in 1..meses_operativos |-> egresos_mes_detalle(i - 1)]]

\* ------------------------------------------------------------------------
\* Sensitivity analysis
\* ------------------------------------------------------------------------
\* [x * (1 + var/100) for x in serie]
Ajustados(serie, var) ==
    [i \in 1..Len(serie) |->
        DMul(serie[i], DAdd(DFromInt(1), DDiv(DFromInt(var), DFromInt(100))))]

\* [ing - egr for ing, egr in zip(ingresos_ajustados, egresos_ajustados)]:
\* zip stops at the end of the shorter series.
FlujosAjustados(ingresos_ajustados, egresos_ajustados) ==
    [i \in 1..Min(Len(ingresos_ajustados), Len(egresos_ajustados)) |->
        DSub(ingresos_ajustados[i], egresos_ajustados[i])]

\* The IRR cell of one pair of variations: -0.99 for flows that sum to zero
\* or less, 0 where calcular_tir returns None or raises.
TirOCero(tir) ==
    IF tir.excepcion # "ninguna" \/ tir.ret.is_none THEN FZero ELSE tir.ret.v

TirAjustada(flujos_ajustados, inversion_inicial) ==
    IF DLe(DSumDesde(flujos_ajustados, 1, DZero), DZero) THEN FNeg(Frac(99, 100))
    ELSE TirOCero(calcular_tir(Enteros(flujos_ajustados), inversion_inicial, <<>>))

\* The sweep with its loops exchanged: rows by revenue variation, columns by
\* expense variation.
SensibilidadTraspuesta(ingresos_operativos, egresos_operativos, inversion_inicial, variaciones_ingresos, variaciones_egresos, tasa_descuento) ==
    LET flujos(var_ing, var_egr) ==
            FlujosAjustados(Ajustados(ingresos_operativos, var_ing),
                            Ajustados(egresos_operativos, var_egr))
        vacio == ingresos_operativos = <<>> \/ egresos_operativos = <<>>
    IN  [tir_matriz |->
             IF vacio THEN <<>>
             ELSE [j \in 1..Len(variaciones_ingresos) |->
                      [i \in 1..Len(variaciones_egresos) |->
                          TirAjustada(flujos(variaciones_ingresos[j],
                                             variaciones_egresos[i]),
                                      inversion_inicial)]],
         vpn_matriz |->
             IF vacio THEN <<>>
             ELSE [j \in 1..Len(variaciones_ingresos) |->
                      [i \in 1..Len(variaciones_egresos) |->
                          calcular_vpn(Enteros(flujos(variaciones_ingresos[j],
                                                      variaciones_egresos[i])),
                                       inversion_inicial, tasa_descuento)]],
         variaciones_ing |-> variaciones_ingresos,
         variaciones_egr |-> variaciones_egresos,
         meses |-> IF vacio THEN 0
                   ELSE Len(flujos(0, 0))]

\* The operation reads the stored series and the investment of the project;
\* variations are whole percentages and keep the amounts whole.  The field
\* meses is the number of months of the adjusted flows of every cell.
analisis_sensibilidad(ingresos_operativos, egresos_operativos, inversion_inicial, variaciones_ingresos, variaciones_egresos, tasa_descuento) ==
    LET flujos(var_ing, var_egr) ==
            FlujosAjustados(Ajustados(ingresos_operativos, var_ing),
                            Ajustados(egresos_operativos, var_egr))
        vacio == ingresos_operativos = <<>> \/ egresos_operativos = <<>>
    IN  [tir_matriz |->
             IF vacio THEN <<>>
             ELSE [i \in 1..Len(variaciones_egresos) |->
                      [j \in 1..Len(variaciones_ingresos) |->
                          TirAjustada(flujos(variaciones_ingresos[j],
                                             variaciones_egresos[i]),
                                      inversion_inicial)]],
         vpn_matriz |->
             IF vacio THEN <<>>
             ELSE [i \in 1..Len(variaciones_egresos) |->
                      [j \in 1..Len(variaciones_ingresos) |->
                          calcular_vpn(Enteros(flujos(variaciones_ingresos[j],
                                                      variaciones_egresos[i])),
                                       inversion_inicial, tasa_descuento)]],
         variaciones_ing |-> variaciones_ingresos,
         variaciones_egr |-> variaciones_egresos,
         meses |-> IF vacio THEN 0
                   ELSE Len(flujos(0, 0))]

\* ------------------------------------------------------------------------
\* Inputs
\* ------------------------------------------------------------------------
MaxLen == 4
MaxInversion == 3
FlowVals == {-3, -2, 0, 1, 12}
Flujos(largo) == UNION {[1..k -> FlowVals] : k \in 0..largo}
Inversiones == 0..MaxInversion

\* The keyword arguments a caller names.  Series of every length up to
\* MaxLen are passed with no argument named, which is where the automatic
\* detection acts (on more than three flows); calls that name arguments pass
\* series one flow shorter.  Calls that are not Excel-compatible are drawn
\* with non-negative flows: Newton then approaches the root from one side
\* and its tolerance of 1e-10, finer than the mantissa, is met when the
\* iterate stops changing, as it is for the code's doubles.
Kwargs ==
    { [input_tipo |-> "periodo"],
      [devolver |-> "anual", input_tipo |-> "periodo"],
      [validacion_estricta |-> FALSE, input_tipo |-> "periodo"] }

KwargsNoExcel == { [excel_compatible |-> FALSE, input_tipo |-> "periodo"] }

SinNegativos(f) == \A i \in 1..Len(f) : f[i] >= 0

LlamadaTir(f, i, k) ==
    [op |-> "calcular_tir", flujos_efectivo |-> f, inversion_inicial |-> i, kw |-> k]

LlamadasTir ==
    { LlamadaTir(f, i, <<>>) : f \in Flujos(MaxLen), i \in Inversiones }
    \cup { LlamadaTir(f, i, k) :
             f \in Flujos(MaxLen - 1), i \in Inversiones, k \in Kwargs }
    \cup { LlamadaTir(f, i, k) :
             f \in {g \in Flujos(MaxLen - 1) : SinNegativos(g)}, i \in Inversiones,
             k \in KwargsNoExcel }

\* Payback calls carry amounts in hundredths: the call is made with the
\* doubles nearest to them.
MaxMeses == 3
MontosCentimos == {-100, 0, 10, 100, 200}
InversionesCentimos == {-100, 0, 110, 200, 300}
FlujosCentimos(largo) == UNION {[1..k -> MontosCentimos] : k \in 0..largo}

LlamadaRecuperacion(f, i) ==
    [op |-> "calcular_periodo_recuperacion", flujos_centimos |-> f,
     inversion_centimos |-> i]

LlamadasRecuperacion ==
    { LlamadaRecuperacion(f, i) : f \in FlujosCentimos(MaxMeses),
                                  i \in InversionesCentimos }

\* Calls of every operation, on short series and with investments that are
\* negative, zero and positive; the pre-operative phase lasts a month or more.
MaxLenMotor == 2
FlujosMotor == Flujos(MaxLenMotor)
InversionesMotor == {-1, 0, 1, 2}
SeriesMotor == UNION {[1..k -> {1, 2}] : k \in 0..MaxLenMotor}
Distribuciones == { <<>>, [mes \in {1} |-> 2], [mes \in {1, 2} |-> 1] }
Costos == { <<>>, [c \in {"personal"} |-> 1], [c \in {"personal", "renta"} |-> 1] }
TasasPorCiento == {-100, 0, 10, 100}
\* 2 ** -60, a rate that 1 + rate does not tell from 0
TasaMinima == [m |-> B28, e |-> -88]
TasasMotor == {Frac(t, 100) : t \in TasasPorCiento} \cup {TasaMinima}

\* Callers that name the solver's guess or its iterations, or both
KwargsSolver ==
    { [guess |-> Frac(1, 2)], [max_iteraciones |-> 1],
      [guess |-> Frac(1, 2), max_iteraciones |-> 1] }

LlamadasMotor ==
    { [op |-> "calcular_saldos_preoperativos_con_costos", inversion |-> i,
       meses |-> m, distribucion |-> d, costos |-> c] :
         i \in InversionesMotor, m \in 1..MaxLenMotor, d \in Distribuciones,
         c \in Costos }
    \cup { [op |-> "calcular_flujo_efectivo_completo", ingresos |-> i, egresos |-> e,
            saldo_preoperativo_final |-> s] :
              i \in SeriesMotor, e \in SeriesMotor, s \in {0, 1} }
    \cup { LlamadaTir(f, i, k) :
              f \in FlujosMotor, i \in InversionesMotor,
              k \in { <<>>, [input_tipo |-> "periodo"], [input_tipo |-> "acumulado"] }
                       \cup KwargsSolver }
    \cup { [op |-> "calcular_vpn", flujos_efectivo |-> f, inversion_inicial |-> i,
            tasa_descuento_anual |-> t] :
              f \in FlujosMotor, i \in InversionesMotor, t \in TasasMotor }
    \cup { [op |-> "calcular_roi", flujos_efectivo |-> f, inversion_inicial |-> i] :
              f \in FlujosMotor, i \in InversionesMotor }
    \cup { LlamadaRecuperacion(f, i) :
              f \in FlujosCentimos(MaxLenMotor), i \in InversionesCentimos }

\* Calls of the flow normalizer on series of amounts in hundredths, of
\* every length up to MaxLen.
MontosNormalizador == {-100, 10, 100, 200}
LlamadasNormalizador ==
    { [op |-> "_convertir_flujos_si_necesario", flujos_centimos |-> f,
       input_tipo |-> t] :
         f \in UNION {[1..k -> MontosNormalizador] : k \in 0..MaxLen},
         t \in {"acumulado", "auto"} }

\* Calls of the two pre-operative calculations.  The tracker is called with
\* whole amounts over a phase of a month or more, with costs that a month
\* does not divide; calcular_saldos_preoperativos with amounts in hundredths.
InversionesSaldos == {0, 3, 60}
DistribucionesSaldos ==
    { <<>>, [mes \in {1} |-> 20], [mes \in {2} |-> 60],
      [mes \in 1..MaxMeses |-> 20] }
CostosSaldos ==
    { <<>>, [c \in {"personal"} |-> 10],
      [c \in {"personal", "renta"} |-> IF c = "personal" THEN 10 ELSE 1] }
InversionesSaldosCentimos == {0, 30, 40, 10000}
ErogacionesCentimos == {10, 30}
DistribucionesCentimos ==
    UNION {[meses -> ErogacionesCentimos] :
              meses \in {{}, {1}, {2}, {1, 2}, 1..MaxMeses}}

LlamadasSaldos ==
    { [op |-> "calcular_saldos_preoperativos_con_costos", inversion |-> i,
       meses |-> m, distribucion |-> d, costos |-> c] :
         i \in InversionesSaldos, m \in 1..MaxMeses, d \in DistribucionesSaldos,
         c \in CostosSaldos }
    \cup { [op |-> "calcular_saldos_preoperativos", inversion_centimos |-> i,
            meses |-> m, distribucion_centimos |-> d] :
              i \in InversionesSaldosCentimos, m \in 0..MaxMeses,
              d \in DistribucionesCentimos }

\* Projection calls.  Amounts are given in hundredths and variation rates in
\* tenths of a percent, the step of the rate sliders; the call is made with
\* the doubles nearest to them.  A revenue configuration may carry no rate.
MaxMesesOperativos == 4
MultasDiarias == {0, 1, 200}
ValoresCentimos == {1, 25, 18000}
PctPagoVoluntario == {10, 50}
PctIngresoOperativo == {60}
TasasDecimas == {-50, -10, 0, 5, 100}
EgresosCentimos == {10, 20, 150000}
MaxConceptos == 2
EgresosBase == UNION {[1..k -> EgresosCentimos] : k \in 0..MaxConceptos}

LlamadaIngresos(n, v, pv, po, c, t, m) ==
    [op |-> "calcular_ingresos_operativos", multas_diarias |-> n,
     valor_centimos |-> v, pct_pago_voluntario |-> pv, pct_ingreso_operativo |-> po,
     con_tasa |-> c, tasa_decimas |-> t, meses_operativos |-> m]

LlamadasProyeccion ==
    { LlamadaIngresos(n, v, pv, po, TRUE, t, m) :
         n \in MultasDiarias, v \in ValoresCentimos, pv \in PctPagoVoluntario,
         po \in PctIngresoOperativo, t \in TasasDecimas, m \in 0..MaxMesesOperativos }
    \cup { LlamadaIngresos(n, v, pv, po, FALSE, 0, m) :
              n \in MultasDiarias, v \in ValoresCentimos, pv \in PctPagoVoluntario,
              po \in PctIngresoOperativo, m \in 0..MaxMesesOperativos }
    \cup { [op |-> "calcular_egresos_operativos", egresos_centimos |-> e,
            tasa_decimas |-> t, meses_operativos |-> m] :
              e \in EgresosBase, t \in TasasDecimas, m \in 0..MaxMesesOperativos }

\* ------------------------------------------------------------------------
\* State machine: a call is drawn, the operation runs, its result is kept.
\* ------------------------------------------------------------------------
VARIABLES pc, llamada, res, proyecto

vars == <<pc, llamada, res, proyecto>>

SinResultado == [ret |-> None, excepcion |-> "ninguna"]

\* The project after __init__, in the attributes the operations read and
\* the handlers of the application write; saldo_preoperativo_final is 0.0
\* while the project has no attribute of that name, and saldo_producido
\* remembers the final balance the tracker returned last.
ProyectoNuevo ==
    [inversion_inicial |-> 0,
     saldos_preoperativos |-> <<>>,
     saldo_preoperativo_final |-> DZero,
     saldo_producido |-> DZero,
     ingresos_operativos |-> <<>>,
     egresos_operativos |-> <<>>,
     flujo_efectivo |-> <<>>,
     indicadores |-> <<>>]

CalcularTir ==
    /\ pc = "llamada"
    /\ llamada.op = "calcular_tir"
    /\ res' = calcular_tir(llamada.flujos_efectivo, llamada.inversion_inicial, llamada.kw)
    /\ pc' = "retorno"
    /\ UNCHANGED <<llamada, proyecto>>

EnDobles(centimos) == [i \in 1..Len(centimos) |-> Centimos(centimos[i])]

CalcularPeriodoRecuperacion ==
    /\ pc = "llamada"
    /\ llamada.op = "calcular_periodo_recuperacion"
    /\ res' = Devuelve(calcular_periodo_recuperacion(
                           EnDobles(llamada.flujos_centimos),
                           Centimos(llamada.inversion_centimos)))
    /\ pc' = "retorno"
    /\ UNCHANGED <<llamada, proyecto>>

CalcularSaldosPreoperativos ==
    /\ pc = "llamada"
    /\ llamada.op = "calcular_saldos_preoperativos_con_costos"
    /\ res' = calcular_saldos_preoperativos_con_costos(
                  llamada.inversion, llamada.meses, llamada.distribucion, llamada.costos)
    /\ pc' = "retorno"
    /\ UNCHANGED <<llamada, proyecto>>

ConvertirFlujos ==
    /\ pc = "llamada"
    /\ llamada.op = "_convertir_flujos_si_necesario"
    /\ res' = Devuelve(convertir_flujos_si_necesario(
                           EnDobles(llamada.flujos_centimos), llamada.input_tipo))
    /\ pc' = "retorno"
    /\ UNCHANGED <<llamada, proyecto>>

CalcularSaldosSinCostos ==
    /\ pc = "llamada"
    /\ llamada.op = "calcular_saldos_preoperativos"
    /\ res' = Devuelve(calcular_saldos_preoperativos(
                           Centimos(llamada.inversion_centimos), llamada.meses,
                           [mes \in DOMAIN llamada.distribucion_centimos |->
                               Centimos(llamada.distribucion_centimos[mes])]))
    /\ pc' = "retorno"
    /\ UNCHANGED <<llamada, proyecto>>

CalcularFlujoEfectivo ==
    /\ pc = "llamada"
    /\ llamada.op = "calcular_flujo_efectivo_completo"
    /\ res' = Devuelve(calcular_flujo_efectivo_completo(
                           DeEnteros(llamada.ingresos), DeEnteros(llamada.egresos),
                           DFromInt(llamada.saldo_preoperativo_final)))
    /\ pc' = "retorno"
    /\ UNCHANGED <<llamada, proyecto>>

CalcularVpn ==
    /\ pc = "llamada"
    /\ llamada.op = "calcular_vpn"
    /\ res' = Devuelve(calcular_vpn(llamada.flujos_efectivo, llamada.inversion_inicial,
                                    llamada.tasa_descuento_anual))
    /\ pc' = "retorno"
    /\ UNCHANGED <<llamada, proyecto>>

CalcularRoi ==
    /\ pc = "llamada"
    /\ llamada.op = "calcular_roi"
    /\ res' = Devuelve(calcular_roi(llamada.flujos_efectivo, llamada.inversion_inicial))
    /\ pc' = "retorno"
    /\ UNCHANGED <<llamada, proyecto>>

\* The double nearest to d / 10: a rate written with one decimal.
Decimas(d) == DDiv(DFromInt(d), DFromInt(10))

ConfigIngresos(ll) ==
    LET base == [multas_diarias |-> ll.multas_diarias,
                 valor_multa_descuento |-> Centimos(ll.valor_centimos),
                 pct_pago_voluntario |-> DFromInt(ll.pct_pago_voluntario),
                 pct_ingreso_operativo |-> DFromInt(ll.pct_ingreso_operativo)]
    IN  IF ll.con_tasa
        THEN [multas_diarias |-> base.multas_diarias,
              valor_multa_descuento |-> base.valor_multa_descuento,
              pct_pago_voluntario |-> base.pct_pago_voluntario,
              pct_ingreso_operativo |-> base.pct_ingreso_operativo,
              tasa_variacion |-> Decimas(ll.tasa_decimas)]
        ELSE base

CalcularIngresosOperativos ==
    /\ pc = "llamada"
    /\ llamada.op = "calcular_ingresos_operativos"
    /\ res' = Devuelve(calcular_ingresos_operativos(
                           ConfigIngresos(llamada), llamada.meses_operativos))
    /\ pc' = "retorno"
    /\ UNCHANGED <<llamada, proyecto>>

CalcularEgresosOperativos ==
    /\ pc = "llamada"
    /\ llamada.op = "calcular_egresos_operativos"
    /\ res' = Devuelve(calcular_egresos_operativos(
                           EnDobles(llamada.egresos_centimos),
                           llamada.meses_operativos, Decimas(llamada.tasa_decimas)))
    /\ pc' = "retorno"
    /\ UNCHANGED <<llamada, proyecto>>

\* ------------------------------------------------------------------------
\* A session of the application on one project
\*
\* The handlers of main_app.py call the operations of the project and keep
\* their results in its attributes.  The amounts of a session are whole, so
\* that the series a handler stores can be read as the integers the
\* indicators are computed on.
\* ------------------------------------------------------------------------
\* A function with every value computed once, when the function is built
Tabulada(f) == f @@ <<>>

InversionesProyecto == {0, 60}
IngresosProyecto == UNION {[1..k -> {DFromInt(60)}] : k \in 0..MaxLenMotor}
EgresosProyecto == UNION {[1..k -> {DFromInt(30)}] : k \in 0..MaxLenMotor}

\* Pre-operative phases: one month that leaves a surplus, two months with
\* costs that leave a deficit.
FasesPreoperativas ==
    { [meses |-> 1, distribucion |-> <<30>>, costos |-> <<>>],
      [meses |-> 2, distribucion |-> <<0, 0>>, costos |-> [c \in {"personal"} |-> 20]] }

\* saldo_final = saldos[-1]["saldo_final_acumulado"] if saldos else 0
SaldoAGuardarPrimerMes(saldos) ==
    IF saldos = <<>> THEN DZero ELSE saldos[1].saldo_final_acumulado

SaldoAGuardar(saldos) ==
    IF saldos = <<>> THEN DZero ELSE saldos[Len(saldos)].saldo_final_acumulado

\* What the tracker returns for each investment and phase of a session
SaldosDeSesion ==
    Tabulada([inversion \in InversionesProyecto |->
        Tabulada([fase \in FasesPreoperativas |->
            calcular_saldos_preoperativos_con_costos(
                inversion, fase.meses, fase.distribucion, fase.costos)])])

\* configurar_inversion_inicial: the widgets set the investment of the
\* project on every run; with the button pressed the tracker runs and its
\* records and final balance are kept.  An exception of the tracker leaves
\* the handler before anything is kept.
ConfigurarInversionInicial ==
    \E inversion \in InversionesProyecto, fase \in FasesPreoperativas,
       boton \in BOOLEAN :
      \E r \in {SaldosDeSesion[inversion][fase]} :
        LET configurado == [proyecto EXCEPT !.inversion_inicial = inversion]
        IN  /\ llamada' = [op |-> "configurar_inversion_inicial",
                           inversion |-> inversion, fase |-> fase, boton |-> boton]
            /\ res' = IF boton THEN r ELSE SinResultado
            /\ proyecto' =
                   IF ~boton \/ r.excepcion # "ninguna" THEN configurado
                   ELSE [configurado EXCEPT
                            !.saldos_preoperativos = r.ret.saldos,
                            !.saldo_preoperativo_final = SaldoAGuardar(r.ret.saldos),
                            !.saldo_producido = r.ret.saldo_final]
            /\ pc' = "retorno"

\* The balances a session can keep
SaldosGuardados ==
    {DZero} \cup {SaldoAGuardar(r[fase].ret.saldos) :
                     r \in {t \in {SaldosDeSesion[i] : i \in InversionesProyecto} :
                               \A f \in FasesPreoperativas :
                                   t[f].excepcion = "ninguna"},
                     fase \in FasesPreoperativas}

\* What the assembly returns for each pair of series and balance of a session
FlujosEnsamblados ==
    Tabulada([ingresos \in IngresosProyecto |->
        Tabulada([egresos \in EgresosProyecto |->
            Tabulada([saldo \in SaldosGuardados |->
                calcular_flujo_efectivo_completo(ingresos, egresos, saldo)])])])

\* An assembly that uses the balance up: the project is left with none
EnsamblaYConsume ==
    \E ingresos \in IngresosProyecto, egresos \in EgresosProyecto :
        /\ llamada' = [op |-> "calcular_flujo_efectivo_completo",
                       ingresos |-> ingresos, egresos |-> egresos]
        /\ res' = Devuelve(FlujosEnsamblados[ingresos][egresos]
                                            [proyecto.saldo_preoperativo_final])
        /\ pc' = "retorno"
        /\ proyecto' = [proyecto EXCEPT !.saldo_preoperativo_final = DZero]

\* calcular_flujo_efectivo_completo called on the project with two series
EnsamblarFlujo ==
    \E ingresos \in IngresosProyecto, egresos \in EgresosProyecto :
        /\ llamada' = [op |-> "calcular_flujo_efectivo_completo",
                       ingresos |-> ingresos, egresos |-> egresos]
        /\ res' = Devuelve(FlujosEnsamblados[ingresos][egresos]
                                            [proyecto.saldo_preoperativo_final])
        /\ pc' = "retorno"
        /\ UNCHANGED proyecto

\* The months of a projection of a session
MesesProyecto == 1..MaxLenMotor

\* proyecto.configuracion_ingresos of the session with the rate of the
\* slider (no variation), and the table of expenses of the session
ConfigIngresosSesion ==
    [multas_diarias |-> 2, valor_multa_descuento |-> Centimos(100),
     pct_pago_voluntario |-> DFromInt(100), pct_ingreso_operativo |-> DFromInt(100),
     tasa_variacion |-> DZero]

EgresosBaseSesion == <<Centimos(3000)>>

\* tasa_descuento of the session: 0.13
TasaDescuentoSesion == Frac(13, 100)

IngresosDeSesion ==
    Tabulada([meses \in MesesProyecto |->
        calcular_ingresos_operativos(ConfigIngresosSesion, meses).ingresos_mensuales])

EgresosDeSesion ==
    Tabulada([meses \in MesesProyecto |->
        calcular_egresos_operativos(EgresosBaseSesion, meses, DZero).egresos_mensuales])

\* The flows a projection of a session assembles
FlujosDeSesion ==
    {FlujosEnsamblados[IngresosDeSesion[meses]][EgresosDeSesion[meses]][saldo] :
        meses \in MesesProyecto, saldo \in SaldosGuardados}

\* tipo_flujos of the session: flows by period
TiposDeFlujos == {"periodo"}

\* "except Exception: tir = None" around the call of calcular_tir
TirONone(tir) == IF tir.excepcion # "ninguna" THEN None ELSE tir.ret

\* Paso 5 of generar_proyeccion_completa for a flow and a positive investment
IndicadoresDeSesion ==
    Tabulada([flujo_efectivo \in FlujosDeSesion |->
        Tabulada([inversion \in {i \in InversionesProyecto : i > 0} |->
            Tabulada([input_tipo \in TiposDeFlujos |->
                    [tir |-> TirONone(
                                 calcular_tir(Enteros(flujo_efectivo), inversion,
                                              [input_tipo |-> input_tipo,
                                               excel_compatible |-> TRUE])),
                     vpn |-> calcular_vpn(Enteros(flujo_efectivo), inversion,
                                          TasaDescuentoSesion),
                     roi |-> calcular_roi(Enteros(flujo_efectivo), inversion),
                     periodo_recuperacion |->
                         calcular_periodo_recuperacion(flujo_efectivo,
                                                       DFromInt(inversion)),
                     tasa_descuento |-> TasaDescuentoSesion]])])])

\* generar_proyeccion_completa: the projections of the session over the
\* months chosen, the assembly with the balance kept, the indicators; the
\* handler returns at the first check that fails and keeps the three series
\* and the indicators at the end.  guardado tells whether it reached the end.
GenerarProyeccion ==
    \E meses_operativos \in MesesProyecto, input_tipo \in TiposDeFlujos :
      \E ingresos \in {IngresosDeSesion[meses_operativos]},
         egresos \in {EgresosDeSesion[meses_operativos]} :
      \E flujo_efectivo \in
             {FlujosEnsamblados[ingresos][egresos][proyecto.saldo_preoperativo_final]} :
        LET guardado ==
                /\ ingresos # <<>> /\ Len(ingresos) = meses_operativos
                /\ egresos # <<>> /\ Len(egresos) = meses_operativos
                /\ Len(ingresos) = Len(egresos)
                /\ flujo_efectivo # <<>> /\ Len(flujo_efectivo) = Len(ingresos)
                /\ proyecto.inversion_inicial > 0
        IN  /\ llamada' = [op |-> "generar_proyeccion_completa",
                           meses_operativos |-> meses_operativos,
                           input_tipo |-> input_tipo]
            /\ res' = Devuelve(guardado)
            /\ proyecto' =
                   IF ~guardado THEN proyecto
                   ELSE [proyecto EXCEPT
                            !.ingresos_operativos = ingresos,
                            !.egresos_operativos = egresos,
                            !.flujo_efectivo = flujo_efectivo,
                            !.indicadores =
                                IndicadoresDeSesion[flujo_efectivo]
                                    [proyecto.inversion_inicial][input_tipo]]
            /\ pc' = "retorno"

\* A client of the library keeps series of its own in the attributes of the
\* project, the flow being the differences of the months both series have.
AsignarSeries ==
    \E ingresos \in IngresosProyecto, egresos \in EgresosProyecto :
        /\ llamada' = [op |-> "asignar_series",
                       ingresos |-> ingresos, egresos |-> egresos]
        /\ res' = SinResultado
        /\ proyecto' =
               [proyecto EXCEPT
                   !.ingresos_operativos = ingresos,
                   !.egresos_operativos = egresos,
                   !.flujo_efectivo =
                       FlujosAjustados(Ajustados(ingresos, 0), Ajustados(egresos, 0))]
        /\ pc' = "retorno"

\* The variations of a sweep, in percent
VariacionesProyecto == {<<0>>, <<-50, 0, 50>>}

\* What the sweep returns for each pair of stored series, investment and
\* variations of a session
SensibilidadDeSesion ==
    Tabulada([s \in IngresosProyecto \X EgresosProyecto \X InversionesProyecto
               \X VariacionesProyecto \X VariacionesProyecto |->
        analisis_sensibilidad(s[1], s[2], s[3], s[4], s[5], TasaDescuentoSesion)])

\* A sweep that keeps the flows of its last cell in the project
BarridoQueGuarda ==
    \E variaciones_ingresos \in VariacionesProyecto,
       variaciones_egresos \in VariacionesProyecto :
        /\ llamada' = [op |-> "analisis_sensibilidad",
                       variaciones_ingresos |-> variaciones_ingresos,
                       variaciones_egresos |-> variaciones_egresos]
        /\ res' = Devuelve(SensibilidadDeSesion[<<proyecto.ingresos_operativos,
                                                  proyecto.egresos_operativos,
                                                  proyecto.inversion_inicial,
                                                  variaciones_ingresos,
                                                  variaciones_egresos>>])
        /\ pc' = "retorno"
        /\ proyecto' =
               [proyecto EXCEPT
                   !.flujo_efectivo =
                       FlujosAjustados(
                           Ajustados(proyecto.ingresos_operativos,
                                     variaciones_ingresos[Len(variaciones_ingresos)]),
                           Ajustados(proyecto.egresos_operativos,
                                     variaciones_egresos[Len(variaciones_egresos)]))]

\* mostrar_analisis_sensibilidad: the sweep over the series the project holds
AnalisisSensibilidad ==
    \E variaciones_ingresos \in VariacionesProyecto,
       variaciones_egresos \in VariacionesProyecto :
        /\ llamada' = [op |-> "analisis_sensibilidad",
                       variaciones_ingresos |-> variaciones_ingresos,
                       variaciones_egresos |-> variaciones_egresos]
        /\ res' = Devuelve(SensibilidadDeSesion[<<proyecto.ingresos_operativos,
                                                  proyecto.egresos_operativos,
                                                  proyecto.inversion_inicial,
                                                  variaciones_ingresos,
                                                  variaciones_egresos>>])
        /\ pc' = "retorno"
        /\ UNCHANGED proyecto

InitTir ==
    pc = "llamada" /\ llamada \in LlamadasTir /\ res = SinResultado
        /\ proyecto = ProyectoNuevo
NextTir == CalcularTir
SpecTir == InitTir /\ [][NextTir]_vars

InitRecuperacion ==
    pc = "llamada" /\ llamada \in LlamadasRecuperacion /\ res = SinResultado
        /\ proyecto = ProyectoNuevo
NextRecuperacion == CalcularPeriodoRecuperacion
SpecRecuperacion == InitRecuperacion /\ [][NextRecuperacion]_vars

InitMotor ==
    pc = "llamada" /\ llamada \in LlamadasMotor /\ res = SinResultado
        /\ proyecto = ProyectoNuevo
NextMotor ==
    \/ CalcularSaldosPreoperativos
    \/ CalcularFlujoEfectivo
    \/ CalcularTir
    \/ CalcularVpn
    \/ CalcularRoi
    \/ CalcularPeriodoRecuperacion
SpecMotor == InitMotor /\ [][NextMotor]_vars

InitNormalizador ==
    pc = "llamada" /\ llamada \in LlamadasNormalizador /\ res = SinResultado
        /\ proyecto = ProyectoNuevo
NextNormalizador == ConvertirFlujos
SpecNormalizador == InitNormalizador /\ [][NextNormalizador]_vars

InitSaldos ==
    pc = "llamada" /\ llamada \in LlamadasSaldos /\ res = SinResultado
        /\ proyecto = ProyectoNuevo
NextSaldos ==
    \/ CalcularSaldosPreoperativos
    \/ CalcularSaldosSinCostos
SpecSaldos == InitSaldos /\ [][NextSaldos]_vars

InitProyeccion ==
    pc = "llamada" /\ llamada \in LlamadasProyeccion /\ res = SinResultado
        /\ proyecto = ProyectoNuevo
NextProyeccion ==
    \/ CalcularIngresosOperativos
    \/ CalcularEgresosOperativos
SpecProyeccion == InitProyeccion /\ [][NextProyeccion]_vars

InitProyecto ==
    /\ pc = "llamada"
    /\ llamada = [op |-> "ProyectoInversion"]
    /\ res = SinResultado
    /\ proyecto = ProyectoNuevo
NextProyecto ==
    \/ ConfigurarInversionInicial
    \/ GenerarProyeccion
    \/ AsignarSeries
    \/ EnsamblarFlujo
    \/ AnalisisSensibilidad
SpecProyecto == InitProyecto /\ [][NextProyecto]_vars

\* ------------------------------------------------------------------------
\* Properties of calcular_tir (SpecTir)
\* ------------------------------------------------------------------------
RetornoTir == pc = "retorno" /\ llamada.op = "calcular_tir"

\* The series the caller describes: the investment as an outflow at time 0
\* followed by the flows as given.
SerieExtendida == <<-llamada.inversion_inicial>> \o llamada.flujos_efectivo

Nombra(name) == name \in DOMAIN llamada.kw

\* C1: when the series [-investment] + flows lacks a strictly positive or a
\* strictly negative entry, calcular_tir returns None and the solver has run
\* no Newton iteration.
C1_SinSignosSinIteracion ==
    (RetornoTir /\ ~HaySignos(SerieExtendida))
        => (res.ret = None /\ res.iters = 0)

\* C2 as stated: every call ends within 20 Newton iterations, and a call
\* that has not converged by the 20th returns None.
C2_VeinteIteraciones ==
    RetornoTir => (res.iters <= 20 /\ (res.iters >= 20 /\ res.causa # "converge"
                                          => res.ret = None))

IterMaxEfectivo ==
    IF Arg(llamada.kw, "excel_compatible") THEN 20
    ELSE Min(Arg(llamada.kw, "max_iteraciones"), 100)

\* C2, amended: an Excel-compatible call (the default) ends within 20 Newton
\* iterations, any other call within min(max_iteraciones, 100); a call whose
\* convergence test has not succeeded by its last permitted iteration
\* returns None.
C2_IteracionesAcotadas ==
    RetornoTir => /\ res.iters <= IterMaxEfectivo
                  /\ res.causa = "iter_max"
                        => (res.ret = None /\ res.iters = IterMaxEfectivo)

\* An Excel-compatible call that used all 20 iterations without converging.
C2_Witness ==
    /\ RetornoTir
    /\ Arg(llamada.kw, "excel_compatible")
    /\ res.causa = "iter_max"
    /\ res.iters = 20
    /\ res.ret = None

\* C3: a call that names no flow mode hands the solver the flows unchanged,
\* after the investment.
C3_SinModoSinConversion ==
    (RetornoTir /\ ~Nombra("input_tipo") /\ res.causa # "validacion")
        => res.valores = SerieExtendida

FlujosIgualesPositivos(f) ==
    /\ Len(f) >= 1
    /\ f[1] > 0
    /\ \A i \in 1..Len(f) : f[i] = f[1]

\* C4: for equal strictly positive flows whose sum exceeds the investment, a
\* call with default settings returns a computed rate greater than zero.
C4_FlujosConstantesTasaPositiva ==
    (/\ RetornoTir
     /\ llamada.kw = <<>>
     /\ llamada.inversion_inicial > 0
     /\ FlujosIgualesPositivos(llamada.flujos_efectivo)
     /\ SumSeq(llamada.flujos_efectivo) > llamada.inversion_inicial)
        => (res.ret # None /\ FGt(res.ret.v, FZero))

\* (1 + r) ** 12 - 1 for the periodic rate the solver found.
AnualizadaDe(r) == FSub(FPow(FAdd(FOne, r), 12), FOne)

\* C5 as stated: whichever the output unit, no rate is returned whose
\* periodic magnitude exceeds 10 or whose annualized magnitude exceeds 50.
C5_LimitesEnTodaUnidad ==
    (RetornoTir /\ res.ret # None)
        => /\ FLe(FAbs(res.r_periodo.v), FromInt(10))
           /\ FLe(FAbs(AnualizadaDe(res.r_periodo.v)), FromInt(50))

\* C5, amended: under strict validation (the default) no rate is returned
\* whose periodic magnitude exceeds 10, and no annual output is returned
\* whose magnitude exceeds 50; period output is not held to the annual limit
\* and a call without strict validation to neither.
C5_LimitesEstrictos ==
    (RetornoTir /\ res.ret # None /\ Arg(llamada.kw, "validacion_estricta"))
        => /\ FLe(FAbs(res.r_periodo.v), FromInt(10))
           /\ Arg(llamada.kw, "devolver") # "periodo"
                 => FLe(FAbs(res.ret.v), FromInt(50))

\* The solver converged on a rate beyond a limit and the strict call
\* reported it as not computable.
C5_Witness ==
    /\ RetornoTir
    /\ Arg(llamada.kw, "validacion_estricta")
    /\ res.r_periodo # None
    /\ \/ FGt(FAbs(res.r_periodo.v), FromInt(10))
       \/ /\ Arg(llamada.kw, "devolver") # "periodo"
          /\ FGt(FAbs(AnualizadaDe(res.r_periodo.v)), FromInt(50))
    /\ res.ret = None

CausasDeFallo == {"signos", "derivada", "iter_max"}

\* C7: a missing sign change, a vanishing derivative and an exhausted
\* iteration cap all end the solver with the one result None, and no
\* exception escapes.
C7_FallosDevuelvenNone ==
    (RetornoTir /\ res.causa \in CausasDeFallo)
        => (res.r_periodo = None /\ res.ret = None /\ res.excepcion = "ninguna")

\* The derivative vanished during an iteration and the call returned None.
C7_Witness ==
    /\ RetornoTir
    /\ res.causa = "derivada"
    /\ res.iters >= 1
    /\ res.ret = None

\* ------------------------------------------------------------------------
\* Properties of the engine's behaviour on invalid input (SpecMotor)
\* ------------------------------------------------------------------------
SinFlujosOInversion ==
    llamada.flujos_efectivo = <<>> \/ llamada.inversion_inicial <= 0

\* A non-positive investment, an empty flow series, or revenue and expense
\* series of different lengths.
EntradaInvalida ==
    CASE llamada.op = "calcular_saldos_preoperativos_con_costos" ->
             llamada.inversion <= 0
      [] llamada.op = "calcular_flujo_efectivo_completo" ->
             \/ llamada.ingresos = <<>>
             \/ llamada.egresos = <<>>
             \/ Len(llamada.ingresos) # Len(llamada.egresos)
      [] llamada.op = "calcular_periodo_recuperacion" ->
             llamada.flujos_centimos = <<>> \/ llamada.inversion_centimos <= 0
      [] OTHER -> SinFlujosOInversion

\* The value each operation answers invalid input with; the balance tracker
\* has none and is held only to returning.
DevuelveCentinela ==
    CASE llamada.op = "calcular_saldos_preoperativos_con_costos" -> TRUE
      [] llamada.op = "calcular_flujo_efectivo_completo" -> res.ret = <<>>
      [] llamada.op = "calcular_tir" -> res.ret = None
      [] llamada.op = "calcular_vpn" -> res.ret = FZero
      [] llamada.op = "calcular_roi" -> res.ret = DZero
      [] llamada.op = "calcular_periodo_recuperacion" -> ~res.ret.recuperado

\* C8: given a non-positive investment, an empty flow series or series of
\* different lengths, no operation of the engine raises; each returns its
\* sentinel (not computable, 0, not recovered, or empty).
C8_EntradaInvalidaSinExcepcion ==
    (pc = "retorno" /\ EntradaInvalida)
        => (res.excepcion = "ninguna" /\ DevuelveCentinela)

\* ------------------------------------------------------------------------
\* Properties of calcular_periodo_recuperacion (SpecRecuperacion)
\* ------------------------------------------------------------------------
RetornoRecuperacion == pc = "retorno" /\ llamada.op = "calcular_periodo_recuperacion"

\* The cumulative flow through period k, added period by period.
RECURSIVE Acumulado(_, _)
Acumulado(flujos, k) ==
    IF k = 0 THEN DZero ELSE DAdd(Acumulado(flujos, k - 1), flujos[k])

Alcanza(k) ==
    DGe(Acumulado(EnDobles(llamada.flujos_centimos), k),
        Centimos(llamada.inversion_centimos))

NuncaAlcanza == \A k \in 1..Len(llamada.flujos_centimos) : ~Alcanza(k)

\* C9: when payback reports recovered, months lies in [n - 1, n], n being the
\* first period at which the cumulative flow is at least the investment.
C9_MesesEnIntervalo ==
    (RetornoRecuperacion /\ res.ret.recuperado)
        => \E n \in 1..Len(llamada.flujos_centimos) :
              /\ Alcanza(n)
              /\ \A j \in 1..(n - 1) : ~Alcanza(j)
              /\ DLe(DFromInt(n - 1), res.ret.meses)
              /\ DLe(res.ret.meses, DFromInt(n))

\* What payback reports of a series that never reaches the investment.
InformeNoRecuperado ==
    /\ ~res.ret.recuperado
    /\ res.ret.meses = DFromInt(Len(llamada.flujos_centimos))
    /\ "anios" \in DOMAIN res.ret
    /\ res.ret.anios = DDiv(res.ret.meses, DFromInt(12))
    /\ "faltante" \in DOMAIN res.ret
    /\ res.ret.faltante =
           DSub(Centimos(llamada.inversion_centimos),
                Acumulado(EnDobles(llamada.flujos_centimos),
                          Len(llamada.flujos_centimos)))
    /\ DGt(res.ret.faltante, DZero)

\* C10 as stated: whenever the cumulative flow never reaches the investment,
\* payback returns recovered = false, months = the number of periods,
\* years = months / 12 and shortfall = investment - sum(flows) > 0.
C10_NuncaAlcanzaInforme ==
    (RetornoRecuperacion /\ NuncaAlcanza) => InformeNoRecuperado

\* C10, amended: for a non-empty series and a positive investment that the
\* cumulative flow never reaches, payback returns recovered = false,
\* months = the number of periods, years = months / 12 and
\* shortfall = investment - sum(flows) > 0.
C10_NoRecuperadoEntradaValida ==
    (/\ RetornoRecuperacion
     /\ llamada.flujos_centimos # <<>>
     /\ llamada.inversion_centimos > 0
     /\ NuncaAlcanza)
        => InformeNoRecuperado

\* A series with flows that falls short of a positive investment.
C10_Witness ==
    /\ RetornoRecuperacion
    /\ Len(llamada.flujos_centimos) >= 2
    /\ llamada.inversion_centimos > 0
    /\ NuncaAlcanza
    /\ ~res.ret.recuperado
    /\ DGt(res.ret.faltante, DZero)

\* ------------------------------------------------------------------------
\* Properties of the projections (SpecProyeccion)
\* ------------------------------------------------------------------------
RetornoIngresos == pc = "retorno" /\ llamada.op = "calcular_ingresos_operativos"

RetornoEgresos == pc = "retorno" /\ llamada.op = "calcular_egresos_operativos"

\* The rate of the call is exactly 0; a configuration that carries no rate
\* projects with the rate 0.
SinVariacion == llamada.tasa_decimas = 0

\* The base value of a revenue call and the base total of an expense call
ValorBase == IngresoOperativoBase(ConfigIngresos(llamada))

TotalBase == DSumDesde(EnDobles(llamada.egresos_centimos), 1, DZero)

\* C11 as stated: with a variation rate of exactly 0 every revenue entry
\* equals the base value, every monthly expense total equals the base total
\* and every concept's monthly detail equals its base amount.
C11_SinVariacionValorBase ==
    /\ (RetornoIngresos /\ SinVariacion)
          => \A i \in 1..llamada.meses_operativos :
                 res.ret.ingresos_mensuales[i] = ValorBase
    /\ (RetornoEgresos /\ SinVariacion)
          => \A i \in 1..llamada.meses_operativos :
                 /\ res.ret.egresos_mensuales[i] = TotalBase
                 /\ res.ret.detalle_conceptos[i] = EnDobles(llamada.egresos_centimos)

\* C11 amended: with a variation rate of exactly 0 every revenue entry is
\* the base value rounded to two decimals, every monthly expense total is
\* the base total rounded to two decimals, and every concept's monthly
\* detail is its base amount, unrounded, for every number of months.
C11_SinVariacionRedondeado ==
    /\ (RetornoIngresos /\ SinVariacion)
          => /\ Len(res.ret.ingresos_mensuales) = llamada.meses_operativos
             /\ \A i \in 1..llamada.meses_operativos :
                    res.ret.ingresos_mensuales[i] = Round2(ValorBase)
    /\ (RetornoEgresos /\ SinVariacion)
          => /\ Len(res.ret.egresos_mensuales) = llamada.meses_operativos
             /\ \A i \in 1..llamada.meses_operativos :
                    /\ res.ret.egresos_mensuales[i] = Round2(TotalBase)
                    /\ res.ret.detalle_conceptos[i] = EnDobles(llamada.egresos_centimos)

\* A revenue projection of several months with the rate 0 whose base value
\* has more than two decimals: every entry is the rounded base value.
C11_Witness ==
    /\ RetornoIngresos
    /\ SinVariacion
    /\ llamada.con_tasa
    /\ llamada.meses_operativos >= 3
    /\ Round2(ValorBase) # ValorBase
    /\ \A i \in 1..llamada.meses_operativos :
           res.ret.ingresos_mensuales[i] = Round2(ValorBase)

\* The amount of the month of entry i before it is rounded
SinRedondear(i) == IngresoMes(ValorBase, Decimas(llamada.tasa_decimas), i - 1)

\* The unrounded amounts of entries i and i + 1 are a hundredth or more apart.
UnCentimoOMas(i) ==
    LET diferencia == DSub(SinRedondear(i + 1), SinRedondear(i))
    IN  DGe(diferencia, Centimos(1)) \/ DLe(diferencia, Centimos(-1))

FactorDelMes(i) == FactorVariacion(Decimas(llamada.tasa_decimas), i - 1)

\* a * b = c * d for doubles, without rounding
ProductosIguales(a, b, c, d) ==
    IF a.s * b.s # c.s * d.s THEN FALSE
    ELSE IF a.s * b.s = 0 THEN TRUE
    ELSE LET e == IF a.e + b.e < c.e + d.e THEN a.e + b.e ELSE c.e + d.e
         IN  BShl(BMul(a.m, b.m), a.e + b.e - e) = BShl(BMul(c.m, d.m), c.e + d.e - e)

\* C13 as stated: with a nonzero rate, in every month each concept's detail
\* is its base amount times the factor that scales the monthly total, so
\* the amounts of two concepts stand in the ratio of their base amounts.
C13_DetalleProporcional ==
    (RetornoEgresos /\ ~SinVariacion)
        => \A i \in 1..llamada.meses_operativos :
               LET base == EnDobles(llamada.egresos_centimos)
                   detalle == res.ret.detalle_conceptos[i]
               IN  /\ \A c \in 1..Len(base) :
                          detalle[c] = DMul(base[c], FactorDelMes(i))
                   /\ \A c, d \in 1..Len(base) :
                          ProductosIguales(detalle[c], base[d], detalle[d], base[c])

\* C13 amended: with a nonzero rate, in every month each concept's detail
\* is its base amount times the factor (1 + rate/100) ** month, rounded to
\* two decimals, the monthly total is the base total times the same factor,
\* rounded to two decimals, and in month 0 the factor is 1.
C13_DetalleEscaladoYRedondeado ==
    (RetornoEgresos /\ ~SinVariacion)
        => /\ Len(res.ret.detalle_conceptos) = llamada.meses_operativos
           /\ \A i \in 1..llamada.meses_operativos :
                  LET base == EnDobles(llamada.egresos_centimos)
                      detalle == res.ret.detalle_conceptos[i]
                  IN  /\ Len(detalle) = Len(base)
                      /\ \A c \in 1..Len(base) :
                             detalle[c] = Round2(DMul(base[c], FactorDelMes(i)))
                      /\ res.ret.egresos_mensuales[i]
                             = Round2(DMul(TotalBase, FactorDelMes(i)))
                      /\ i = 1 => FactorDelMes(i) = DFromInt(1)

\* An expense projection with a nonzero rate, two concepts of different
\* base amounts and several months, in whose last month the rounding shifts
\* the ratio of the two amounts.
C13_Witness ==
    /\ RetornoEgresos
    /\ ~SinVariacion
    /\ llamada.meses_operativos >= 3
    /\ Len(llamada.egresos_centimos) >= 2
    /\ llamada.egresos_centimos[1] # llamada.egresos_centimos[2]
    /\ LET base == EnDobles(llamada.egresos_centimos)
           detalle == res.ret.detalle_conceptos[llamada.meses_operativos]
       IN  /\ detalle[1] = Round2(DMul(base[1], FactorDelMes(llamada.meses_operativos)))
           /\ ~ProductosIguales(detalle[1], base[2], detalle[2], base[1])

\* C29: in every month of an expense projection the amounts of the concepts
\* of the detail add up, to the cent, to the entry of the month in the
\* series of totals, with and without variation.
C29_DetalleSumaElTotal ==
    RetornoEgresos
        => \A i \in 1..llamada.meses_operativos :
               Round2(DSumDesde(res.ret.detalle_conceptos[i], 1, DZero))
                   = res.ret.egresos_mensuales[i]

\* ------------------------------------------------------------------------
\* Properties of the cash-flow assembly (SpecMotor)
\* ------------------------------------------------------------------------
RetornoFlujo == pc = "retorno" /\ llamada.op = "calcular_flujo_efectivo_completo"

\* C14: the assembly returns the empty series when either series is empty
\* or their lengths differ; otherwise a series of the same length with
\* ingresos[i] - egresos[i] in every month, the carry-over added to the
\* first month and to no other.
C14_FlujoEnsamblado ==
    RetornoFlujo
        => IF \/ llamada.ingresos = <<>>
              \/ llamada.egresos = <<>>
              \/ Len(llamada.ingresos) # Len(llamada.egresos)
           THEN res.ret = <<>>
           ELSE /\ Len(res.ret) = Len(llamada.ingresos)
                /\ res.ret[1] = DFromInt(llamada.ingresos[1] - llamada.egresos[1]
                                             + llamada.saldo_preoperativo_final)
                /\ \A i \in 2..Len(res.ret) :
                       res.ret[i] = DFromInt(llamada.ingresos[i] - llamada.egresos[i])

\* Two months assembled for a project that carries a balance: the balance
\* is in the first month and not in the second.
C14_Witness ==
    /\ RetornoFlujo
    /\ Len(llamada.ingresos) = 2
    /\ Len(llamada.egresos) = 2
    /\ llamada.saldo_preoperativo_final # 0
    /\ res.ret = <<DFromInt(llamada.ingresos[1] - llamada.egresos[1]
                                + llamada.saldo_preoperativo_final),
                   DFromInt(llamada.ingresos[2] - llamada.egresos[2])>>

\* ------------------------------------------------------------------------
\* Properties of the valuation formulas (SpecMotor)
\* ------------------------------------------------------------------------
RetornoVpn == pc = "retorno" /\ llamada.op = "calcular_vpn"

\* The flows are some, each above zero, and the investment is positive.
FlujosPositivos ==
    /\ llamada.flujos_efectivo # <<>>
    /\ \A t \in 1..Len(llamada.flujos_efectivo) : llamada.flujos_efectivo[t] > 0
    /\ llamada.inversion_inicial > 0

\* The NPV of the flows and investment of the call at another rate
VpnConTasa(tasa) ==
    calcular_vpn(llamada.flujos_efectivo, llamada.inversion_inicial, tasa)

\* C25 as stated: for positive flows and a positive investment the NPV at
\* a rate is strictly greater than the NPV at every higher rate.
C25_VpnEstrictamenteDecreciente ==
    (RetornoVpn /\ FlujosPositivos)
        => \A r2 \in TasasMotor :
               FLt(llamada.tasa_descuento_anual, r2) => FGt(res.ret, VpnConTasa(r2))

\* C25 amended: for positive flows, a positive investment and a rate of zero
\* or more, the NPV is greater than or equal to the NPV at every higher
\* rate; at the rate -1 the NPV is minus the investment.
C25_VpnNoCreciente ==
    (RetornoVpn /\ FlujosPositivos)
        => /\ ~FLt(llamada.tasa_descuento_anual, FZero)
                => \A r2 \in TasasMotor :
                       FLt(llamada.tasa_descuento_anual, r2)
                           => FLe(VpnConTasa(r2), res.ret)
           /\ llamada.tasa_descuento_anual = FNeg(FOne)
                => res.ret = FromInt(-llamada.inversion_inicial)

\* The NPV of two positive flows was computed at rate zero: it is the NPV
\* at the smallest rate above zero, and above the NPV at 10 %.
C25_Witness ==
    /\ RetornoVpn
    /\ FlujosPositivos
    /\ Len(llamada.flujos_efectivo) = 2
    /\ llamada.tasa_descuento_anual = FZero
    /\ res.ret = VpnConTasa(TasaMinima)
    /\ FGt(res.ret, VpnConTasa(Frac(10, 100)))

\* C26: when calcular_tir with its default arguments returns a rate for the
\* flows and the investment, the NPV of the same flows and investment is
\* above zero at every annual discount rate below that IRR and under zero
\* at every annual discount rate above it.
C26_TirCoherenteConVpn ==
    (/\ pc = "retorno"
     /\ llamada.op = "calcular_tir"
     /\ llamada.kw = <<>>
     /\ res.excepcion = "ninguna"
     /\ ~res.ret.is_none)
        => \A tasa \in TasasMotor :
               /\ FGt(res.ret.v, tasa) => FGt(VpnConTasa(tasa), FZero)
               /\ FLt(res.ret.v, tasa) => FLt(VpnConTasa(tasa), FZero)

\* A call of calcular_tir with strict validation that asks for the rate per
\* period has returned a rate.
RetornoTasaPorPeriodo ==
    /\ pc = "retorno"
    /\ llamada.op = "calcular_tir"
    /\ Arg(llamada.kw, "validacion_estricta")
    /\ Arg(llamada.kw, "devolver") = "periodo"
    /\ res.excepcion = "ninguna"
    /\ ~res.ret.is_none

\* C27: every rate calcular_tir returns with strict validation in period
\* mode lies between -0.99 and 10, whatever the flows, the investment and
\* the flow mode.
C27_TasaEntreLimites ==
    RetornoTasaPorPeriodo
        => /\ FLe(FNeg(Frac(99, 100)), res.ret.v)
           /\ FLe(res.ret.v, FromInt(10))

\* A rate above 2 per period was returned for cumulative flows.
C27_Witness ==
    /\ RetornoTasaPorPeriodo
    /\ Arg(llamada.kw, "input_tipo") = "acumulado"
    /\ FGt(res.ret.v, FromInt(2))

\* The arguments of a call without the guess and the iterations it names
SinParametrosDelSolver(kw) ==
    [name \in DOMAIN kw \ {"guess", "max_iteraciones"} |-> kw[name]]

\* C28: in Excel-compatible mode the result of calcular_tir is the result
\* of the call that names neither guess nor max_iteraciones: the guess 0.10
\* and the 20 iterations are used whatever the caller passes.
C28_ResultadoSinGuessNiIteraciones ==
    (/\ pc = "retorno"
     /\ llamada.op = "calcular_tir"
     /\ Arg(llamada.kw, "excel_compatible"))
        => res = calcular_tir(llamada.flujos_efectivo, llamada.inversion_inicial,
                              SinParametrosDelSolver(llamada.kw))

\* A caller passed the guess 0.5 and one iteration, and calcular_tir
\* returned a rate that took the solver more than one iteration.
C28_Witness ==
    /\ pc = "retorno"
    /\ llamada.op = "calcular_tir"
    /\ Arg(llamada.kw, "excel_compatible")
    /\ DOMAIN llamada.kw = {"guess", "max_iteraciones"}
    /\ llamada.kw.max_iteraciones = 1
    /\ ~res.ret.is_none
    /\ res.iters > 1

\* ------------------------------------------------------------------------
\* Properties of a session (SpecProyecto)
\* ------------------------------------------------------------------------
\* The three series the project holds have the same number of months
LongitudesIguales ==
    /\ Len(proyecto.ingresos_operativos) = Len(proyecto.egresos_operativos)
    /\ Len(proyecto.flujo_efectivo) = Len(proyecto.ingresos_operativos)

\* C15: the series a projection has stored have equal lengths, and an
\* operation given revenue and expense series of different lengths returns
\* an empty result: the assembly an empty flow, the sweep empty matrices,
\* never values computed on the months both series have.
C15_SeriesDeIgualLongitud ==
    /\ (/\ pc = "retorno"
        /\ llamada.op = "generar_proyeccion_completa"
        /\ res.ret) => LongitudesIguales
    /\ (/\ pc = "retorno"
        /\ llamada.op = "calcular_flujo_efectivo_completo"
        /\ Len(llamada.ingresos) # Len(llamada.egresos)) => res.ret = <<>>
    /\ (/\ pc = "retorno"
        /\ llamada.op = "analisis_sensibilidad"
        /\ Len(proyecto.ingresos_operativos) # Len(proyecto.egresos_operativos))
           => (res.ret.tir_matriz = <<>> /\ res.ret.vpn_matriz = <<>>)

\* C16: once the tracker has produced a final balance for the project, an
\* assembly for that project on series of equal length, not empty, returns
\* ingresos[0] - egresos[0] plus that balance in its first month: a surplus
\* is added, a deficit subtracted.
C16_SaldoEnPrimerMes ==
    (/\ pc = "retorno"
     /\ llamada.op = "calcular_flujo_efectivo_completo"
     /\ llamada.ingresos # <<>>
     /\ Len(llamada.ingresos) = Len(llamada.egresos))
        => res.ret[1] = DAdd(DSub(llamada.ingresos[1], llamada.egresos[1]),
                             proyecto.saldo_producido)

\* The tracker has left a deficit over two months, and the assembly that
\* follows has subtracted it from the first month.
C16_Witness ==
    /\ pc = "retorno"
    /\ llamada.op = "calcular_flujo_efectivo_completo"
    /\ Len(llamada.ingresos) = 2
    /\ Len(llamada.egresos) = 2
    /\ Len(proyecto.saldos_preoperativos) = 2
    /\ proyecto.saldo_producido.s < 0
    /\ DLt(res.ret[1], DSub(llamada.ingresos[1], llamada.egresos[1]))
    /\ res.ret[2] = DSub(llamada.ingresos[2], llamada.egresos[2])

RetornoSensibilidad == pc = "retorno" /\ llamada.op = "analisis_sensibilidad"

\* The sweep ran on base series that are not empty
ConSeriesBase ==
    proyecto.ingresos_operativos # <<>> /\ proyecto.egresos_operativos # <<>>

\* The flows of the cell of expense variation var_egr and revenue variation
\* var_ing: each stored amount scaled by its percentage, revenue less
\* expense, over the months both series have.
FlujosDeCelda(var_ing, var_egr) ==
    FlujosAjustados(Ajustados(proyecto.ingresos_operativos, var_ing),
                    Ajustados(proyecto.egresos_operativos, var_egr))

TirDelProyecto ==
    calcular_tir(Enteros(proyecto.flujo_efectivo), proyecto.inversion_inicial, <<>>)

\* C22: in a sweep over a project with an investment and three series of
\* equal length, not empty, whose own IRR is computable, the IRR cell of the
\* expense variation 0 % and the revenue variation 0 % equals the IRR of the
\* project's flow series and investment.
C22_CeldaCentralEsLaTir ==
    (/\ RetornoSensibilidad
     /\ ConSeriesBase
     /\ LongitudesIguales
     /\ proyecto.inversion_inicial > 0
     /\ TirDelProyecto.excepcion = "ninguna"
     /\ ~TirDelProyecto.ret.is_none)
        => \A i \in 1..Len(llamada.variaciones_egresos),
              j \in 1..Len(llamada.variaciones_ingresos) :
               (llamada.variaciones_egresos[i] = 0 /\ llamada.variaciones_ingresos[j] = 0)
                   => res.ret.tir_matriz[i][j] = TirDelProyecto.ret.v

\* C23: the sweep fills every cell of the grid and never raises; each IRR
\* cell holds the rate calcular_tir returns for the flows of the cell or,
\* where it returns None or raises, the sentinel 0.
C23_CeldaEsTasaOCero ==
    (RetornoSensibilidad /\ ConSeriesBase)
        => /\ res.excepcion = "ninguna"
           /\ Len(res.ret.tir_matriz) = Len(llamada.variaciones_egresos)
           /\ \A i \in 1..Len(llamada.variaciones_egresos) :
                  /\ Len(res.ret.tir_matriz[i]) = Len(llamada.variaciones_ingresos)
                  /\ \A j \in 1..Len(llamada.variaciones_ingresos) :
                         res.ret.tir_matriz[i][j] =
                             TirOCero(calcular_tir(
                                          Enteros(FlujosDeCelda(
                                                      llamada.variaciones_ingresos[j],
                                                      llamada.variaciones_egresos[i])),
                                          proyecto.inversion_inicial, <<>>))

\* C24: a step that runs the sweep leaves the project as it was: its revenue
\* series, expense series, cash-flow series, investment and indicators (and
\* the balances it keeps) are the same after the call as before it; what
\* the sweep produces is in the grid it returns.
C24_BarridoNoCambiaProyecto ==
    [][llamada'.op = "analisis_sensibilidad" => proyecto' = proyecto]_vars

\* A sweep of nine cells has returned over a project that holds series, a
\* flow and indicators, and some cell was computed on other flows than the
\* project's.
C24_Witness ==
    /\ RetornoSensibilidad
    /\ ConSeriesBase
    /\ proyecto.flujo_efectivo # <<>>
    /\ proyecto.indicadores # <<>>
    /\ proyecto.inversion_inicial > 0
    /\ Len(res.ret.tir_matriz) = 3
    /\ Len(llamada.variaciones_ingresos) = 3
    /\ FlujosDeCelda(50, 50) # proyecto.flujo_efectivo

\* The series an assembly returns holds the balance the project keeps once,
\* in its first month, and the differences of the series in the others.
SaldoUnaVezEnPrimerMes(flujo, ingresos, egresos, saldo) ==
    (ingresos # <<>> /\ Len(ingresos) = Len(egresos))
        => /\ Len(flujo) = Len(ingresos)
           /\ flujo[1] = DAdd(DSub(ingresos[1], egresos[1]), saldo)
           /\ \A i \in 2..Len(flujo) : flujo[i] = DSub(ingresos[i], egresos[i])

\* C30: a step that assembles the cash flow leaves the project as it was,
\* the balance it keeps included, and the series it was given; the series
\* it returns holds that balance once, in the first month; and an assembly
\* that follows an assembly of the same series returns the same series.
C30_EnsamblajeNoConsumeSaldo ==
    [][llamada'.op = "calcular_flujo_efectivo_completo"
          => /\ proyecto' = proyecto
             /\ SaldoUnaVezEnPrimerMes(res'.ret, llamada'.ingresos, llamada'.egresos,
                                       proyecto'.saldo_preoperativo_final)
             /\ llamada = llamada' => res' = res]_vars

\* The project keeps a balance other than zero and the flow of a projection,
\* and an assembly of two months has returned with the balance in its first.
C30_Witness ==
    /\ pc = "retorno"
    /\ llamada.op = "calcular_flujo_efectivo_completo"
    /\ Len(llamada.ingresos) = 2
    /\ Len(llamada.egresos) = 2
    /\ proyecto.saldo_preoperativo_final.s # 0
    /\ proyecto.flujo_efectivo # <<>>
    /\ res.ret[1] # DSub(llamada.ingresos[1], llamada.egresos[1])
    /\ res.ret[1] = DAdd(DSub(llamada.ingresos[1], llamada.egresos[1]),
                         proyecto.saldo_preoperativo_final)

\* ------------------------------------------------------------------------
\* Properties of the pre-operative calculations (SpecSaldos)
\* ------------------------------------------------------------------------
RetornoSaldosConCostos ==
    pc = "retorno" /\ llamada.op = "calcular_saldos_preoperativos_con_costos"

\* sum of distribucion.get(j, 0) for j = 1..k
RECURSIVE SumaHasta(_, _)
SumaHasta(distribucion, k) ==
    IF k = 0 THEN 0
    ELSE SumaHasta(distribucion, k - 1)
             + (IF k \in DOMAIN distribucion THEN distribucion[k] ELSE 0)

\* meses times the cumulative balance of month k, a whole number:
\* the sum over j = 1..k of (distribucion.get(j, 0) - sum(costos) / meses)
SaldoPorMeses(k) ==
    llamada.meses * SumaHasta(llamada.distribucion, k)
        - k * SumValues(llamada.costos, DOMAIN llamada.costos)

\* The double d is exactly the fraction p / q, q not zero
DIgualRacional(d, p, q) ==
    IF p = 0 THEN d.s = 0
    ELSE /\ d.s = Sgn(p) * Sgn(q)
         /\ LET lhs == BMul(d.m, BFromNat(Abs(q)))
                rhs == BFromNat(Abs(p))
            IN  IF d.e >= 0 THEN BCmp(BShl(lhs, d.e), rhs) = 0
                ELSE BCmp(lhs, BShl(rhs, -d.e)) = 0

\* The whole numbers nearest to p / q, q not zero: one, or two at a tie
Redondeos(p, q) ==
    LET pp == Sgn(q) * p
        qq == Abs(q)
    IN  {n \in {pp \div qq, (pp \div qq) + 1} : 2 * Abs(n * qq - pp) <= qq}

\* d is a fraction p / q rounded to two decimals
DIgualRedondeado(d, p, q) == \E n \in Redondeos(100 * p, q) : d = Centimos(n)

\* C17 as stated: for an investment other than zero the tracker returns
\* `meses` records numbered 1..meses, the cumulative balance of record k
\* being the sum of the monthly net amounts, its percent that balance over
\* the investment times 100, and the final balance the cumulative balance of
\* the last record, whatever the distribution sums to.
C17_SaldosExactos ==
    (RetornoSaldosConCostos /\ llamada.inversion # 0) =>
        /\ res.excepcion = "ninguna"
        /\ Len(res.ret.saldos) = llamada.meses
        /\ \A k \in 1..Len(res.ret.saldos) :
               /\ res.ret.saldos[k].mes = k
               /\ DIgualRacional(res.ret.saldos[k].saldo_final_acumulado,
                                 SaldoPorMeses(k), llamada.meses)
               /\ DIgualRacional(res.ret.saldos[k].porcentaje_amortizado,
                                 100 * SaldoPorMeses(k),
                                 llamada.meses * llamada.inversion)
        /\ res.ret.saldo_final =
               res.ret.saldos[Len(res.ret.saldos)].saldo_final_acumulado

\* C17: for an investment other than zero the tracker returns `meses`
\* records numbered 1..meses; the cumulative balance of record k is the sum
\* of the monthly net amounts rounded to two decimals, its percent is that
\* sum (not rounded) over the investment times 100, rounded to two decimals;
\* the final balance is the cumulative balance of the last record, whatever
\* the distribution sums to.
C17_SaldosRedondeados ==
    (RetornoSaldosConCostos /\ llamada.inversion # 0) =>
        /\ res.excepcion = "ninguna"
        /\ Len(res.ret.saldos) = llamada.meses
        /\ \A k \in 1..Len(res.ret.saldos) :
               /\ res.ret.saldos[k].mes = k
               /\ DIgualRedondeado(res.ret.saldos[k].saldo_final_acumulado,
                                   SaldoPorMeses(k), llamada.meses)
               /\ DIgualRedondeado(res.ret.saldos[k].porcentaje_amortizado,
                                   100 * SaldoPorMeses(k),
                                   llamada.meses * llamada.inversion)
        /\ res.ret.saldo_final =
               res.ret.saldos[Len(res.ret.saldos)].saldo_final_acumulado

\* Three months with costs that three does not divide and a distribution
\* that does not sum to the investment: the balance of the first month is
\* a rounded amount.
C17_Witness ==
    /\ RetornoSaldosConCostos
    /\ llamada.inversion = 60
    /\ llamada.meses = 3
    /\ SumaHasta(llamada.distribucion, 3) = 20
    /\ res.excepcion = "ninguna"
    /\ Len(res.ret.saldos) = 3
    /\ ~DIgualRacional(res.ret.saldos[1].saldo_final_acumulado,
                       SaldoPorMeses(1), llamada.meses)
    /\ res.ret.saldos[1].saldo_final_acumulado = Centimos(1667)
    /\ res.ret.saldos[1].porcentaje_amortizado = Centimos(2778)
    /\ res.ret.saldo_final = DFromInt(10)

RetornoSaldosSinCostos ==
    pc = "retorno" /\ llamada.op = "calcular_saldos_preoperativos"

\* sum of the hundredths of distribucion.get(j, 0) for j = 1..k
ErogadoHasta(k) == SumaHasta(llamada.distribucion_centimos, k)

\* C18: every record of calcular_saldos_preoperativos has erogacion_acumulada
\* + saldo_disponible = inversion and saldo_disponible = inversion less the
\* amounts of the months up to its own; when the amounts of the months
\* 1..meses sum to the investment, the last record has saldo_disponible 0
\* and erogacion_acumulada = inversion.
C18_SaldoMasErogado ==
    RetornoSaldosSinCostos =>
        LET inversion == Centimos(llamada.inversion_centimos)
            saldos == res.ret
        IN  /\ \A k \in 1..Len(saldos) :
                   /\ DAdd(saldos[k].erogacion_acumulada, saldos[k].saldo_disponible)
                          = inversion
                   /\ saldos[k].saldo_disponible =
                          Centimos(llamada.inversion_centimos - ErogadoHasta(k))
            /\ (/\ llamada.meses >= 1
                /\ ErogadoHasta(llamada.meses) = llamada.inversion_centimos)
                   => /\ saldos[Len(saldos)].saldo_disponible = DZero
                      /\ saldos[Len(saldos)].erogacion_acumulada = inversion

\* ------------------------------------------------------------------------
\* Properties of the flow normalizer (SpecNormalizador)
\* ------------------------------------------------------------------------
RetornoNormalizador ==
    pc = "retorno" /\ llamada.op = "_convertir_flujos_si_necesario"

\* The running sum of a series of floats
RECURSIVE SumaAcumulada(_)
SumaAcumulada(serie) ==
    IF serie = <<>> THEN <<>>
    ELSE LET antes == SumaAcumulada(SubSeq(serie, 1, Len(serie) - 1))
         IN  Append(antes, IF antes = <<>> THEN serie[1]
                           ELSE DAdd(antes[Len(antes)], serie[Len(serie)]))

RECURSIVE SumaDiffs(_)
SumaDiffs(f) ==
    IF Len(f) <= 1 THEN 0
    ELSE SumaDiffs(SubSeq(f, 1, Len(f) - 1)) + Abs(f[Len(f)] - f[Len(f) - 1])

RECURSIVE SumaValues(_)
SumaValues(f) ==
    IF Len(f) <= 1 THEN 0
    ELSE SumaValues(SubSeq(f, 1, Len(f) - 1)) + Abs(f[Len(f)])

\* C20: the "auto" mode returns the first differences exactly when the
\* series has more than 3 entries and the mean of its absolute differences
\* is less than 0.2 times the mean of the absolute values after the first;
\* otherwise it returns the series unchanged.
C20_ConvierteBajoElUmbral ==
    (RetornoNormalizador /\ llamada.input_tipo = "auto") =>
        LET f == llamada.flujos_centimos
        IN  IF Len(f) > 3 /\ 5 * SumaDiffs(f) < SumaValues(f)
            THEN res.ret = Diferencias(EnDobles(f))
            ELSE res.ret = EnDobles(f)

====
